---- MODULE Spec2Model ----
(***************************************************************************)
(* dotnope / strictenv: per-package access control for process.env.        *)
(*                                                                         *)
(* The model follows the newest revision of each library file:             *)
(*   lib/strictenv.js        (src/unnamed/part_002)  session + decisions   *)
(*   lib/proxy.js            (src/lib/stack-parser.js, 670-839)            *)
(*   lib/stack-parser.js     (src/lib/stack-parser.js, 1-557)              *)
(*   lib/config-loader.js    (src/lib/config-loader.js, 1-247)             *)
(*   lib/dependency-resolver.js (src/lib/native-bridge.js, 187-454)        *)
(*   native/src/stack_trace.cc, native/src/promise_hooks.cc                *)
(***************************************************************************)
EXTENDS Integers, Sequences, FiniteSets, TLC

(***************************************************************************)
(* Bounds and input universes                                              *)
(***************************************************************************)
MaxSessions == 2
MaxAccesses == 2
MaxNesting == 2
MaxUnits == 2
MaxDepth == 3

MAIN == "__main__"
WILDCARD == "*"
OPTIONS_KEY == "__options__"

Pkgs == {"P", "Q", "R"}
Keys == {"K", "L"}
Ops == {"read", "write", "delete"}

EmptyMap == [x \in {} |-> 0]

(***************************************************************************)
(* Program state                                                           *)
(***************************************************************************)
VARIABLES
    \* lib/strictenv.js
    isInitialized, disableToken, globalHandle, accessCounts,
    isMainThread, workerAllowed,
    \* lib/config-loader.js
    cachedConfig, cachedOptions, configPath,
    \* lib/dependency-resolver.js
    envVarAllowedCache,
    \* lib/stack-parser.js: the cached package name of each path seen, and the
    \* cached validation verdict of each (path, name) seen
    packageCache, validationCache,
    \* lib/proxy.js
    proxyEnv, isEnabled, checkAccessFn, filterKeysFn, proxyOptions,
    \* the environment of the process
    env, depGraph, nativeAvailable,
    \* the environmentWhitelist of the manifest on disk, in the runs that
    \* read it from the world; the other runs draw what is read at each call
    manifest,
    \* native/src/promise_hooks.cc
    g_enabled, g_promiseOrigins, g_resolvedPromises, g_contextStack,
    \* the deferred units whose continuations V8 is running, innermost last
    running,
    \* the isolates of the process, one thread each: its position in the
    \* native code, its locals, its thread_local g_contextStack, the promise
    \* hook set on the isolate and the mutexes it holds, oldest first
    threads,
    \* the two mutexes of native/src/promise_hooks.cc: their owner
    g_mutex, g_contextStackMutex,
    \* native/preload/dotnope_preload.c: the environment block of the process,
    \* the once-guard, the owner of policy_mutex, the statics of the library,
    \* and the calls of the thread that are inside the library
    environ, init_once, policy_mutex, preload, frames,
    \* handles handed out to callers, tokens drawn so far, and the number of
    \* intercepted accesses since the session last changed
    handles, tokensIssued, trapCalls,
    \* the last result of getSerializableConfig, as its caller holds it
    snapshot,
    \* the outcome of the last call, as its caller observes it
    last

engineVars == <<isInitialized, disableToken, globalHandle, accessCounts>>
configVars == <<cachedConfig, cachedOptions, configPath>>
depVars == <<envVarAllowedCache>>
parserVars == <<packageCache, validationCache>>
proxyVars == <<proxyEnv, isEnabled, checkAccessFn, filterKeysFn, proxyOptions>>
isolateVars == <<threads, g_mutex, g_contextStackMutex>>
preloadVars == <<environ, init_once, policy_mutex, preload, frames>>
worldVars == <<depGraph, nativeAvailable, isMainThread, manifest, isolateVars, preloadVars>>
hookVars == <<g_enabled, g_promiseOrigins, g_resolvedPromises, g_contextStack, running>>
vars == <<engineVars, configVars, depVars, parserVars, proxyVars, worldVars, hookVars, env, handles,
          tokensIssued, trapCalls, workerAllowed, snapshot, last>>

(***************************************************************************)
(* Policy sources (the environmentWhitelist of a manifest).  An optional   *)
(* JSON field is a sequence of length at most one: <<>> when the field is  *)
(* missing or of the wrong type, <<v>> when it is present with value v.    *)
(***************************************************************************)
RawString(k) ==
    [kind |-> "string", str |-> k, arr |-> {}, allowed |-> <<>>,
     canWrite |-> <<>>, canDelete |-> <<>>, allowPeerDependencies |-> FALSE,
     peerDepthLimit |-> <<>>, excludePeerDependencies |-> <<>>]

RawArray(S) ==
    [kind |-> "array", str |-> "", arr |-> S, allowed |-> <<>>,
     canWrite |-> <<>>, canDelete |-> <<>>, allowPeerDependencies |-> FALSE,
     peerDepthLimit |-> <<>>, excludePeerDependencies |-> <<>>]

RawObject(al, cw, cd, peer, depth, excl) ==
    [kind |-> "object", str |-> "", arr |-> {}, allowed |-> al,
     canWrite |-> cw, canDelete |-> cd, allowPeerDependencies |-> peer,
     peerDepthLimit |-> depth, excludePeerDependencies |-> excl]

RawInvalid ==
    [kind |-> "number", str |-> "", arr |-> {}, allowed |-> <<>>,
     canWrite |-> <<>>, canDelete |-> <<>>, allowPeerDependencies |-> FALSE,
     peerDepthLimit |-> <<>>, excludePeerDependencies |-> <<>>]

\* a raw __options__ object; each field is <<>> (missing) or <<b>>
RawOptions(fc, pw, pd, pe) ==
    [kind |-> "options", failClosed |-> fc, protectWrites |-> pw,
     protectDeletes |-> pd, protectEnumeration |-> pe]

DEFAULT_OPTIONS ==
    [failClosed |-> TRUE, protectWrites |-> TRUE, protectDeletes |-> TRUE,
     protectEnumeration |-> TRUE]

\* Array.isArray(f) ? f : []
ArrayOrEmpty(f) == IF Len(f) = 1 THEN f[1] ELSE {}

\* a normalization that lets a shorthand entry write what it may read
normalizeEntryShorthandWrites(c) ==
    IF c.kind = "object" THEN
        [allowed |-> ArrayOrEmpty(c.allowed),
         canWrite |-> ArrayOrEmpty(c.canWrite),
         canDelete |-> ArrayOrEmpty(c.canDelete),
         allowPeerDependencies |-> c.allowPeerDependencies,
         peerDepthLimit |-> IF Len(c.peerDepthLimit) = 1 THEN c.peerDepthLimit[1] ELSE 1,
         excludePeerDependencies |-> ArrayOrEmpty(c.excludePeerDependencies)]
    ELSE
        [allowed |-> IF c.kind = "array" THEN c.arr ELSE {c.str},
         canWrite |-> IF c.kind = "array" THEN c.arr ELSE {c.str},
         canDelete |-> {},
         allowPeerDependencies |-> FALSE,
         peerDepthLimit |-> 1,
         excludePeerDependencies |-> {}]

normalizeEntry(c) ==
    IF c.kind = "object" THEN
        [allowed |-> ArrayOrEmpty(c.allowed),
         canWrite |-> ArrayOrEmpty(c.canWrite),
         canDelete |-> ArrayOrEmpty(c.canDelete),
         allowPeerDependencies |-> c.allowPeerDependencies,
         peerDepthLimit |-> IF Len(c.peerDepthLimit) = 1 THEN c.peerDepthLimit[1] ELSE 1,
         excludePeerDependencies |-> ArrayOrEmpty(c.excludePeerDependencies)]
    ELSE
        [allowed |-> IF c.kind = "array" THEN c.arr ELSE {c.str},
         canWrite |-> {},
         canDelete |-> {},
         allowPeerDependencies |-> FALSE,
         peerDepthLimit |-> 1,
         excludePeerDependencies |-> {}]

normalizeOptions(whitelist) ==
    IF OPTIONS_KEY \in DOMAIN whitelist /\ whitelist[OPTIONS_KEY].kind = "options"
    THEN LET o == whitelist[OPTIONS_KEY] IN
         [failClosed |-> o.failClosed # <<FALSE>>,
          protectWrites |-> o.protectWrites # <<FALSE>>,
          protectDeletes |-> o.protectDeletes # <<FALSE>>,
          protectEnumeration |-> o.protectEnumeration # <<FALSE>>]
    ELSE DEFAULT_OPTIONS

normalizeConfig(whitelist) ==
    LET names == {n \in DOMAIN whitelist :
                     /\ n # OPTIONS_KEY
                     /\ whitelist[n].kind \in {"object", "array", "string"}}
    IN [config |-> [n \in names |-> normalizeEntry(whitelist[n])],
        options |-> normalizeOptions(whitelist)]

(***************************************************************************)
(* lib/dependency-resolver.js                                              *)
(***************************************************************************)
\* declared dependencies of a package, in manifest order; a package that is
\* not installed has none
getPackageDependencies(g, packageName) ==
    IF packageName \in DOMAIN g THEN g[packageName] ELSE <<>>

RECURSIVE getDependenciesWithLimit(_, _, _, _, _, _)
RECURSIVE walkDeps(_, _, _, _, _, _, _)

\* a loop that does not look at the exclusion list
walkDepsAll(g, deps, i, depthLimit, excludePackages, currentDepth, visited) ==
    IF i > Len(deps) THEN visited
    ELSE LET dep == deps[i] IN
         IF dep \in visited
         THEN walkDeps(g, deps, i + 1, depthLimit, excludePackages, currentDepth, visited)
         ELSE LET v1 == visited \cup {dep}
                  v2 == IF currentDepth + 1 < depthLimit
                        THEN getDependenciesWithLimit(g, dep, depthLimit, excludePackages,
                                                      currentDepth + 1, v1)
                        ELSE v1
              IN walkDeps(g, deps, i + 1, depthLimit, excludePackages, currentDepth, v2)

\* the for-loop of getDependenciesWithLimit from position i on; 'visited' is
\* the one Set shared by the whole recursion
walkDeps(g, deps, i, depthLimit, excludePackages, currentDepth, visited) ==
    IF i > Len(deps) THEN visited
    ELSE LET dep == deps[i] IN
         IF dep \in excludePackages \/ dep \in visited
         THEN walkDeps(g, deps, i + 1, depthLimit, excludePackages, currentDepth, visited)
         ELSE LET v1 == visited \cup {dep}
                  v2 == IF currentDepth + 1 < depthLimit
                        THEN getDependenciesWithLimit(g, dep, depthLimit, excludePackages,
                                                      currentDepth + 1, v1)
                        ELSE v1
              IN walkDeps(g, deps, i + 1, depthLimit, excludePackages, currentDepth, v2)

\* a walk that stops one level early
getDependenciesOffByOne(g, packageName, depthLimit, excludePackages, currentDepth, visited) ==
    IF currentDepth + 1 >= depthLimit THEN visited
    ELSE walkDeps(g, getPackageDependencies(g, packageName), 1, depthLimit,
                  excludePackages, currentDepth, visited)

getDependenciesWithLimit(g, packageName, depthLimit, excludePackages, currentDepth, visited) ==
    IF currentDepth >= depthLimit THEN visited
    ELSE walkDeps(g, getPackageDependencies(g, packageName), 1, depthLimit,
                  excludePackages, currentDepth, visited)

\* packageConfig.allowed.includes(envVar) || packageConfig.allowed.includes('*')
includesVar(list, envVar) == envVar \in list \/ WILDCARD \in list

\* a set built from the granting packages alone
computeGrantingPackages(g, envVar, config) ==
    {p \in DOMAIN config : includesVar(config[p].allowed, envVar)}

\* the set getAllowedPackagesForEnvVar builds when the cache has no entry
computeAllowedPackages(g, envVar, config) ==
    LET granting == {p \in DOMAIN config : includesVar(config[p].allowed, envVar)}
        peers(p) == IF config[p].allowPeerDependencies
                    THEN getDependenciesWithLimit(g, p, config[p].peerDepthLimit,
                                                  config[p].excludePeerDependencies, 0, {})
                    ELSE {}
    IN granting \cup UNION {peers(p) : p \in granting}

\* a lookup that answers from any cached entry, whatever its key
getAllowedPackagesAnyEntry(cache, g, envVar, config) ==
    IF cache # EmptyMap THEN cache[CHOOSE k \in DOMAIN cache : TRUE]
    ELSE computeAllowedPackages(g, envVar, config)

getAllowedPackagesForEnvVar(cache, g, envVar, config) ==
    IF envVar \in DOMAIN cache THEN cache[envVar]
    ELSE computeAllowedPackages(g, envVar, config)

\* the cache after a call of getAllowedPackagesForEnvVar
cacheAfterLookup(cache, g, envVar, config) ==
    IF envVar \in DOMAIN cache THEN cache
    ELSE [k \in DOMAIN cache \cup {envVar} |->
             IF k = envVar THEN computeAllowedPackages(g, envVar, config) ELSE cache[k]]

isPackageAllowed(cache, g, packageName, envVar, config) ==
    IF packageName = MAIN THEN TRUE
    ELSE packageName \in getAllowedPackagesForEnvVar(cache, g, envVar, config)

(***************************************************************************)
(* lib/strictenv.js: write/delete policy                                   *)
(***************************************************************************)
operationList(packageConfig, operationKey) ==
    IF operationKey = "canWrite" THEN packageConfig.canWrite ELSE packageConfig.canDelete

isPackageAllowedForOperation(packageName, envVar, config, operationKey) ==
    IF packageName = MAIN THEN TRUE
    ELSE IF packageName \notin DOMAIN config THEN FALSE
    ELSE includesVar(operationList(config[packageName], operationKey), envVar)

(***************************************************************************)
(* Source locations.  A path is the sequence of its segments; NoFile is    *)
(* the missing file name of generated code.  The file system is a fixed    *)
(* world: what a path resolves to and what the nearest manifest declares   *)
(* is told by the path's last segment.                                     *)
(***************************************************************************)
NoFile == <<>>
NODE_MODULES == "node_modules"

AppFile == <<"app", "server.js">>
PkgFile(p) == <<"app", NODE_MODULES, p, "index.js">>
NestedPkgFile(outer, p) == <<"app", NODE_MODULES, outer, NODE_MODULES, p, "index.js">>
\* a symbolic link placed in p's directory, pointing into another package
LinkFile(p) == <<"app", NODE_MODULES, p, "link.js">>
\* a file in a directory named p whose manifest declares another name
ForgedFile(p) == <<"app", NODE_MODULES, p, "forged.js">>
\* a path that no longer exists
GoneFile(p) == <<"app", NODE_MODULES, p, "gone.js">>
\* a file below a manifest that does not parse
BrokenFile(p) == <<"app", NODE_MODULES, p, "broken.js">>
NodeInternalFile == <<"node:", "events">>
DotnopeProxyFile == <<"app", NODE_MODULES, "dotnope", "lib", "proxy.js">>
DotnopeDevFile == <<"dev", "dotnope", "lib", "stack-parser.js">>

INTERNAL_PATHS ==
    {<<"lib", "proxy.js">>, <<"lib", "stack-parser.js">>, <<"lib", "dotnope.js">>,
     <<"lib", "config-loader.js">>, <<"lib", "dependency-resolver.js">>}

Last(path) == path[Len(path)]
EndsWith(path, suffix) ==
    /\ Len(path) >= Len(suffix)
    /\ SubSeq(path, Len(path) - Len(suffix) + 1, Len(path)) = suffix

\* a file of p reached through ".." from a sibling directory
DotDotFile(sibling, p) == <<"app", NODE_MODULES, sibling, "..", p, "index.js">>
\* a file of p below a directory whose name merely ends in node_modules
OldModulesFile(p) == <<"app", "old_node_modules", p, "index.js">>
ScopedFile == <<"app", NODE_MODULES, "@scope", "name", "lib", "index.js">>
\* a file below a manifest that has no name field
NamelessFile(p) == <<"app", NODE_MODULES, p, "nameless.js">>
\* a file with no manifest in any directory above it
OrphanFile(p) == <<"app", NODE_MODULES, p, "orphan.js">>

\* path.normalize on an absolute path: "." and empty segments go, ".." takes
\* the segment before it
RECURSIVE normalizeFrom(_, _, _)
normalizeFrom(path, i, acc) ==
    IF i > Len(path) THEN acc
    ELSE IF path[i] \in {".", ""} THEN normalizeFrom(path, i + 1, acc)
    ELSE IF path[i] = ".."
         THEN normalizeFrom(path, i + 1,
                            IF acc = <<>> THEN acc ELSE SubSeq(acc, 1, Len(acc) - 1))
         ELSE normalizeFrom(path, i + 1, Append(acc, path[i]))

normalize(path) == normalizeFrom(path, 1, <<>>)

\* normalized.lastIndexOf("/node_modules/"): position of the last node_modules
\* segment that is followed by a segment, 0 if none
lastNodeModulesIndex(path) ==
    LET idx == {i \in 1..(Len(path) - 1) : path[i] = NODE_MODULES}
    IN IF idx = {} THEN 0 ELSE CHOOSE i \in idx : \A j \in idx : j <= i

\* parts[0].startsWith('@')
IsScoped(segment) == segment \in {"@scope"}

\* the package a normalized path lies in: the segment after position i, two
\* segments for a scoped package, __main__ when i is 0
packageNameAfter(normalized, i) ==
    IF i = 0 THEN MAIN
    ELSE IF IsScoped(normalized[i + 1])
         THEN normalized[i + 1] \o "/" \o
              (IF i + 2 <= Len(normalized) THEN normalized[i + 2] ELSE "undefined")
         ELSE normalized[i + 1]
packageNameIn(normalized) == packageNameAfter(normalized, lastNodeModulesIndex(normalized))

\* an extraction that stops at the outermost node_modules segment
extractPackageNameOutermost(filePath) ==
    LET normalized == normalize(filePath)
        idx == {i \in 1..(Len(normalized) - 1) : normalized[i] = NODE_MODULES}
    IN IF idx = {} THEN MAIN
       ELSE normalized[(CHOOSE i \in idx : \A j \in idx : i <= j) + 1]

extractPackageNameFromPath(filePath) == packageNameIn(normalize(filePath))

\* the result for a path that packageCache does not hold
extractPackageName(filePath) == extractPackageNameFromPath(filePath)

\* packageCache, a set of <<filePath, packageName>>
cachedPackage(cache, filePath) == {e \in cache : e[1] = filePath}

\* extractPackageName with its cache: packageCache.has(filePath) is asked first
extractPackageNameCached(cache, filePath) ==
    IF cachedPackage(cache, filePath) # {}
    THEN (CHOOSE e \in cachedPackage(cache, filePath) : TRUE)[2]
    ELSE extractPackageName(filePath)

\* the segments that end in the text "node_modules"
endsWithNodeModules(segment) == segment \in {NODE_MODULES, "old_node_modules"}

\* native/src/stack_trace.cc ExtractPackageName: filePath.rfind("node_modules/")
\* on the path as given, then the text up to the first (scoped: second) slash
ExtractPackageName(filePath) ==
    LET idx == {i \in 1..(Len(filePath) - 1) : endsWithNodeModules(filePath[i])}
        pos == CHOOSE i \in idx : \A j \in idx : j <= i
    IN IF idx = {} THEN MAIN
       ELSE IF pos + 1 = Len(filePath) THEN filePath[pos + 1]
       ELSE IF IsScoped(filePath[pos + 1])
            THEN filePath[pos + 1] \o "/" \o filePath[pos + 2]
            ELSE filePath[pos + 1]

\* fs.realpathSync: <<path>> or <<>> when it throws
realpathSync(filePath) ==
    IF Last(filePath) = "gone.js" THEN <<>>
    ELSE IF Last(filePath) = "link.js"
         THEN <<(<<"app", NODE_MODULES, "evil", "link.js">>)>>
         ELSE <<normalize(filePath)>>

\* the name declared by the nearest manifest above realPath: <<name>>,
\* <<"">> for a manifest without a name, <<>> when there is no manifest,
\* "<unparsable>" for a parse failure
UNPARSABLE == "<unparsable>"
nearestManifestName(realPath) ==
    IF Last(realPath) = "forged.js" THEN <<"evil">>
    ELSE IF Last(realPath) = "broken.js" THEN <<UNPARSABLE>>
    ELSE IF Last(realPath) = "nameless.js" THEN <<"">>
    ELSE IF Last(realPath) = "orphan.js" THEN <<>>
    ELSE IF realPath[1] = "dev" THEN <<"dotnope">>
    ELSE IF lastNodeModulesIndex(realPath) = 0 THEN <<"app">>
    ELSE <<extractPackageNameFromPath(realPath)>>

\* the verdict for a key that validationCache does not hold
validatePackageIdentity(filePath, packageName) ==
    IF packageName = MAIN THEN TRUE
    ELSE LET rp == realpathSync(filePath) IN
         IF rp = <<>> THEN FALSE
         ELSE IF extractPackageNameFromPath(rp[1]) # packageName THEN FALSE
         ELSE LET m == nearestManifestName(rp[1]) IN
              IF m = <<>> THEN TRUE
              ELSE IF m[1] = UNPARSABLE THEN FALSE
              ELSE IF m[1] = "" THEN TRUE
              ELSE m[1] = packageName

\* validationCache, a set of <<filePath, packageName, valid>>; the entries
\* are those of the current TTL window
cachedVerdict(cache, filePath, packageName) ==
    {e \in cache : e[1] = filePath /\ e[2] = packageName}

\* validatePackageIdentity with its cache, which __main__ never reaches
validatePackageIdentityCached(cache, filePath, packageName) ==
    IF packageName = MAIN THEN TRUE
    ELSE IF cachedVerdict(cache, filePath, packageName) # {}
    THEN (CHOOSE e \in cachedVerdict(cache, filePath, packageName) : TRUE)[3]
    ELSE validatePackageIdentity(filePath, packageName)

isNodeInternal(filePath) == filePath[1] \in {"node:", "internal"}

hasDotnopeDir(filePath) ==
    \E i \in 1..(Len(filePath) - 1) :
        filePath[i] = NODE_MODULES /\ filePath[i + 1] = "dotnope" /\ i + 2 <= Len(filePath)

isInternalFile(filePath) ==
    \/ /\ hasDotnopeDir(filePath)
       /\ \E ip \in INTERNAL_PATHS : EndsWith(filePath, ip)
    \/ /\ hasDotnopeDir(filePath)
       /\ \/ EndsWith(filePath, <<"dotnope", "index.js">>)
          \/ EndsWith(filePath, <<"dotnope", "index.mjs">>)
    \/ /\ Len(filePath) >= 3
       /\ filePath[Len(filePath) - 1] = "lib"
       /\ \A i \in 1..Len(filePath) : filePath[i] # NODE_MODULES
       /\ \E ip \in INTERNAL_PATHS : EndsWith(filePath, ip)
       /\ nearestManifestName(filePath) = <<"dotnope">>

(***************************************************************************)
(* Stack frames, as the V8 call-site API reports them                      *)
(***************************************************************************)
Frame(file, isEval, evalOrigin, functionName) ==
    [file |-> file, isEval |-> isEval, evalOrigin |-> evalOrigin,
     functionName |-> functionName]

PlainFrame(file) == Frame(file, FALSE, FALSE, "handler")
\* code run by eval(): no file name, flagged by V8
EvalCodeFrame == Frame(NoFile, TRUE, TRUE, "")
\* a function whose name contains "eval"
EvalNamedFrame(file) == Frame(file, FALSE, FALSE, "evalGetEnv")
\* eval code that carries a source URL
EvalFileFrame(file) == Frame(file, TRUE, TRUE, "handler")

\* funcName === evalName || funcName.includes(evalName), over the names in use
EVAL_FUNCTION_NAMES == {"eval", "Function", "anonymous"}
nameLooksEval(funcName) == funcName \in EVAL_FUNCTION_NAMES \cup {"evalGetEnv"}

detectEvalContext(frame) ==
    \/ frame.isEval
    \/ frame.evalOrigin
    \/ nameLooksEval(frame.functionName)
    \/ /\ frame.file = NoFile
       /\ frame.functionName # ""
       /\ frame.functionName # "<anonymous>"

\* a scan that finds nothing
hasEvalInStackNever(stack) == FALSE

hasEvalInStack(stack) == \E i \in 1..Len(stack) : detectEvalContext(stack[i])

\* the caller information handed to the decision engine
NoCaller ==
    [found |-> FALSE, packageName |-> "", fileName |-> NoFile, isEval |-> FALSE,
     via |-> "none"]
Caller(packageName, fileName, isEval, via) ==
    [found |-> TRUE, packageName |-> packageName, fileName |-> fileName,
     isEval |-> isEval, via |-> via]

\* the frames a stack walk may stop at
qualifies(frame) ==
    /\ frame.file # NoFile
    /\ ~isNodeInternal(frame.file)
    /\ ~isInternalFile(frame.file)

firstQualifying(stack, skipFrames) ==
    LET idx == {i \in (skipFrames + 1)..Len(stack) : qualifies(stack[i])}
    IN IF idx = {} THEN 0 ELSE CHOOSE i \in idx : \A j \in idx : i <= j

getCallingPackageJS(stack, skipFrames) ==
    IF Len(stack) = 0 THEN NoCaller
    ELSE LET i == firstQualifying(stack, skipFrames) IN
         IF i = 0 THEN NoCaller
         ELSE LET frame == stack[i]
                  packageName == extractPackageName(frame.file)
              IN IF ~validatePackageIdentity(frame.file, packageName) THEN NoCaller
                 ELSE Caller(packageName, frame.file,
                             detectEvalContext(frame) \/ hasEvalInStack(stack), "js")

\* native GetCallerInfo: first frame with a script name outside the internals
nativeGetCallerInfo(stack, skipFrames) ==
    LET i == firstQualifying(stack, skipFrames) IN
    IF i = 0 THEN NoCaller
    ELSE Caller(ExtractPackageName(stack[i].file), stack[i].file, stack[i].isEval, "native")

NoContext == "<null>"

\* a resolution without the async fallback
getCallingPackageNoFallback(native, stack, asyncContext, skipFrames) ==
    IF native /\ nativeGetCallerInfo(stack, skipFrames).found
    THEN nativeGetCallerInfo(stack, skipFrames)
    ELSE getCallingPackageJS(stack, skipFrames)

getCallingPackage(native, stack, asyncContext, skipFrames) ==
    IF native /\ nativeGetCallerInfo(stack, skipFrames).found
    THEN nativeGetCallerInfo(stack, skipFrames)
    ELSE IF native /\ asyncContext # NoContext /\ asyncContext # MAIN
    THEN Caller(asyncContext, <<"<async>">>, FALSE, "async")
    ELSE getCallingPackageJS(stack, skipFrames)

\* the file getCallingPackageJS resolves, if the walk gets that far
resolvedByJS(native, stack, asyncContext) ==
    IF native /\ nativeGetCallerInfo(stack, 0).found THEN {}
    ELSE IF native /\ asyncContext # NoContext /\ asyncContext # MAIN THEN {}
    ELSE IF firstQualifying(stack, 0) = 0 THEN {}
    ELSE {stack[firstQualifying(stack, 0)].file}

\* packageCache.set(filePath, packageName) in extractPackageName
packageCacheAfter(cache, native, stack, asyncContext) ==
    cache \cup {<<f, extractPackageNameCached(cache, f)>> :
                  f \in resolvedByJS(native, stack, asyncContext)}

\* validationCache.set(cacheKey, ...) in validatePackageIdentity, which
\* returns before the cache for __main__
validationCacheAfter(cache, native, stack, asyncContext) ==
    cache \cup {<<f, extractPackageName(f),
                  validatePackageIdentityCached(cache, f, extractPackageName(f))>> :
                  f \in {g \in resolvedByJS(native, stack, asyncContext) :
                            extractPackageName(g) # MAIN}}

\* the caches of lib/stack-parser.js after a call of getCallingPackage
getCallingPackageCaches(stack, asyncContext) ==
    /\ packageCache' = packageCacheAfter(packageCache, nativeAvailable, stack, asyncContext)
    /\ validationCache' =
          validationCacheAfter(validationCache, nativeAvailable, stack, asyncContext)

(***************************************************************************)
(* lib/strictenv.js: the access decision                                   *)
(***************************************************************************)
ERR_UNKNOWN_CALLER == "ERR_DOTNOPE_UNKNOWN_CALLER"
ERR_EVAL_CONTEXT == "ERR_DOTNOPE_EVAL_CONTEXT"
ERR_UNAUTHORIZED == "ERR_DOTNOPE_UNAUTHORIZED"
ERR_LOAD_ORDER == "ERR_DOTNOPE_LOAD_ORDER"
ERR_INVALID_TOKEN == "Invalid disable token"
ERR_CONFIG == "config load failed"
OK == ""

trackingKey(packageName, envVar, operation) == <<packageName, envVar, operation>>

\* a counter that records only that the access happened
incrementOnce(counts, tk) ==
    [t \in DOMAIN counts \cup {tk} |-> IF t = tk THEN 1 ELSE counts[t]]

increment(counts, tk) ==
    [t \in DOMAIN counts \cup {tk} |->
        IF t = tk THEN (IF tk \in DOMAIN counts THEN counts[tk] ELSE 0) + 1
        ELSE counts[t]]

\* a verdict that applies the read rule to every operation
policyAllowsAsRead(cache, g, packageName, envVar, operation, config) ==
    isPackageAllowed(cache, g, packageName, envVar, config)

\* the policy verdict of checkAccess for an identified package
policyAllows(cache, g, packageName, envVar, operation, config) ==
    IF operation = "read" THEN isPackageAllowed(cache, g, packageName, envVar, config)
    ELSE IF operation = "write"
    THEN isPackageAllowedForOperation(packageName, envVar, config, "canWrite")
    ELSE isPackageAllowedForOperation(packageName, envVar, config, "canDelete")

\* an unknown-caller branch that lets the access through
unknownCallerAllowed(options, counts, cache) ==
    [code |-> OK, policyChecked |-> FALSE, counts |-> counts, cache |-> cache]

\* the branch of checkAccess for a caller that could not be determined
unknownCaller(options, counts, cache) ==
    [code |-> IF options.failClosed THEN ERR_UNKNOWN_CALLER ELSE OK,
     policyChecked |-> FALSE, counts |-> counts, cache |-> cache]

\* a block of eval contexts that ignores failClosed
evalAlwaysBlocked(callerInfo, options) == callerInfo.isEval

\* if (callerInfo.isEval && options.failClosed)
evalBlocked(callerInfo, options) == callerInfo.isEval /\ options.failClosed

\* the branch of checkAccess for an identified package other than the main
\* application: count the access, then ask the policy
packageAccess(callerInfo, config, counts, cache, g, envVar, operation) ==
    [code |-> IF policyAllows(cache, g, callerInfo.packageName, envVar, operation, config)
              THEN OK ELSE ERR_UNAUTHORIZED,
     policyChecked |-> TRUE,
     counts |-> increment(counts, trackingKey(callerInfo.packageName, envVar, operation)),
     cache |-> IF operation = "read"
               THEN cacheAfterLookup(cache, g, envVar, config)
               ELSE cache]

\* the Error object checkAccess throws with the given code: its own
\* properties.  An optional property is <<>> when it is not set and <<v>>
\* when it is set to v; lineNumber and functionName tell whether the
\* property is set from the caller information
thrownError(code, callerInfo, envVar, operation) ==
    [code |-> code,
     envVar |-> envVar,
     operation |-> operation,
     packageName |-> IF code \in {ERR_EVAL_CONTEXT, ERR_UNAUTHORIZED}
                     THEN <<callerInfo.packageName>> ELSE <<>>,
     fileName |-> IF code \in {ERR_EVAL_CONTEXT, ERR_UNAUTHORIZED}
                  THEN <<callerInfo.fileName>> ELSE <<>>,
     lineNumber |-> code \in {ERR_EVAL_CONTEXT, ERR_UNAUTHORIZED},
     functionName |-> code = ERR_UNAUTHORIZED]

\* a check that lets the main application through before looking at eval
checkAccessMainFirst(callerInfo, options, config, counts, cache, g, envVar, operation) ==
    IF ~callerInfo.found THEN unknownCaller(options, counts, cache)
    ELSE IF callerInfo.packageName = MAIN THEN
        [code |-> OK, policyChecked |-> FALSE, counts |-> counts, cache |-> cache]
    ELSE IF evalBlocked(callerInfo, options) THEN
        [code |-> ERR_EVAL_CONTEXT, policyChecked |-> FALSE,
         counts |-> counts, cache |-> cache]
    ELSE packageAccess(callerInfo, config, counts, cache, g, envVar, operation)

\* checkAccess(envVar, operation): the error code it throws (OK when it
\* returns), whether it reaches the policy check, and the maps it leaves
checkAccess(callerInfo, options, config, counts, cache, g, envVar, operation) ==
    IF ~callerInfo.found THEN unknownCaller(options, counts, cache)
    ELSE IF evalBlocked(callerInfo, options) THEN
        [code |-> ERR_EVAL_CONTEXT, policyChecked |-> FALSE,
         counts |-> counts, cache |-> cache]
    ELSE IF callerInfo.packageName = MAIN THEN
        [code |-> OK, policyChecked |-> FALSE, counts |-> counts, cache |-> cache]
    ELSE packageAccess(callerInfo, config, counts, cache, g, envVar, operation)

(***************************************************************************)
(* Inputs: manifests, dependency graphs, call stacks                       *)
(***************************************************************************)
Some(v) == <<v>>
None == <<>>

withOptions(base, o) ==
    [n \in DOMAIN base \cup {OPTIONS_KEY} |-> IF n = OPTIONS_KEY THEN o ELSE base[n]]

\* a manifest that cannot be read or parsed
Unloadable == ("<unloadable>" :> RawInvalid)

\* manifests of the session runs
SessionSources ==
    {EmptyMap,
     ("P" :> RawString("K")),
     withOptions(("P" :> RawObject(Some({"K"}), Some({WILDCARD}), None, FALSE, None, None)),
                 RawOptions(Some(FALSE), None, Some(FALSE), None))}

\* manifests of the decision runs: every combination of the global options
\* over a policy with read, write, delete and wildcard grants
AccessPolicy ==
    ("P" :> RawObject(Some({"K"}), Some({"K"}), Some({WILDCARD}), TRUE, Some(1), None))
    @@ ("Q" :> RawArray({WILDCARD}))
AccessSources ==
    {AccessPolicy, EmptyMap}
    \cup {withOptions(AccessPolicy, RawOptions(Some(fc), Some(pw), Some(pd), None)) :
             fc \in BOOLEAN, pw \in BOOLEAN, pd \in BOOLEAN}

\* manifests of the policy runs: an entry, or none, for each of P, Q and R
Absent ==
    [kind |-> "absent", str |-> "", arr |-> {}, allowed |-> <<>>,
     canWrite |-> <<>>, canDelete |-> <<>>, allowPeerDependencies |-> FALSE,
     peerDepthLimit |-> <<>>, excludePeerDependencies |-> <<>>]
PeerEntries ==
    {RawObject(Some({"K"}), Some({"K"}), Some({WILDCARD}), TRUE, d, e) :
        d \in {Some(0), Some(1), Some(2)}, e \in {None, Some({"Q"}), Some({"R"})}}
EntriesP ==
    {Absent, RawArray({"K", "L"}),
     RawObject(Some({WILDCARD}), Some({WILDCARD}), None, TRUE, None, None),
     RawObject(None, Some({"L"}), Some({"K"}), TRUE, Some(2), None)}
    \cup PeerEntries
EntriesQ ==
    {Absent, RawObject(Some({"L"}), None, Some({"L"}), TRUE, Some(1), None)}
EntriesR == {Absent, RawString("L")}
manifestOf(ep, eq, er) ==
    LET all == ("P" :> ep) @@ ("Q" :> eq) @@ ("R" :> er)
    IN [n \in {m \in DOMAIN all : all[m].kind # "absent"} |-> all[n]]
PolicySources ==
    {manifestOf(ep, eq, er) : ep \in EntriesP, eq \in EntriesQ, er \in EntriesR}

\* declared dependencies per installed package, in manifest order
ChainDeps == ("P" :> <<"Q">>) @@ ("Q" :> <<"R">>) @@ ("R" :> <<>>)
Graphs ==
    {ChainDeps,
     ("P" :> <<"Q", "R">>) @@ ("Q" :> <<"P">>) @@ ("R" :> <<>>),
     ("P" :> <<"R">>) @@ ("Q" :> <<"R", "P">>) @@ ("R" :> <<"Q">>)}

\* frames that stand before the caller's frame
LeadFrames == {PlainFrame(DotnopeProxyFile), EvalCodeFrame}

\* frames of calling code
CallerFrames ==
    {PlainFrame(AppFile), EvalNamedFrame(AppFile),
     PlainFrame(PkgFile("P")), PlainFrame(PkgFile("Q")), PlainFrame(PkgFile("R")),
     EvalNamedFrame(PkgFile("P")), EvalFileFrame(PkgFile("Q")),
     PlainFrame(LinkFile("P")), PlainFrame(ForgedFile("Q"))}

Stacks ==
    {<<>>, <<PlainFrame(DotnopeDevFile)>>}
    \cup {<<c>> : c \in CallerFrames}
    \cup {<<EvalCodeFrame, c>> : c \in {PlainFrame(AppFile), PlainFrame(PkgFile("P"))}}
    \cup {<<PlainFrame(DotnopeProxyFile), PlainFrame(NodeInternalFile), PlainFrame(PkgFile("Q"))>>}

SessionStacks ==
    {<<PlainFrame(AppFile)>>, <<PlainFrame(PkgFile("P"))>>, <<>>,
     <<EvalNamedFrame(PkgFile("Q"))>>}
PolicyStacks == {<<PlainFrame(PkgFile(p))>> : p \in Pkgs}

AsyncContexts == {NoContext, MAIN} \cup Pkgs

NullToken == 0
EmptyString == -1
Undefined == -2
Tokens == 1..MaxSessions
ProvidedTokens == Tokens \cup {NullToken, EmptyString, Undefined}

(***************************************************************************)
(* Observations                                                            *)
(***************************************************************************)
Obs(call, code, handle, provided, key, caller, claimed, valid, decided) ==
    [call |-> call, code |-> code, handle |-> handle, provided |-> provided,
     key |-> key, caller |-> caller, claimed |-> claimed, valid |-> valid,
     decided |-> decided, keys |-> {}, optIn |-> FALSE, unit |-> 0, parent |-> 0,
     depthLimit |-> 0, excludePackages |-> {}, file |-> NoFile, stack |-> <<>>,
     context |-> NoContext, held |-> <<>>]

\* the observation of an enableStrictEnv call and of its allowInWorker option
EnableObs(code, handle, allowInWorker) ==
    [Obs("enable", code, handle, NullToken, "", NoCaller, "", TRUE, FALSE)
        EXCEPT !.optIn = allowInWorker]

\* the identity the first qualifying frame of a stack claims, "" if none
claimedIdentity(stack) ==
    IF firstQualifying(stack, 0) = 0 THEN ""
    ELSE extractPackageName(stack[firstQualifying(stack, 0)].file)

\* whether that frame passes identity validation
claimValid(stack) ==
    IF firstQualifying(stack, 0) = 0 THEN TRUE
    ELSE validatePackageIdentity(stack[firstQualifying(stack, 0)].file, claimedIdentity(stack))

(***************************************************************************)
(* Init: the process after the modules have been loaded                    *)
(***************************************************************************)
NoOptions == [failClosed |-> FALSE, protectWrites |-> FALSE, protectDeletes |-> FALSE,
              protectEnumeration |-> FALSE]
NullConfig == [loaded |-> FALSE, entries |-> EmptyMap]
NullOptions == [loaded |-> FALSE, value |-> NoOptions]

NO_PATH == "<null>"
MANIFEST_PATH == "package.json"
DIRECT_PATH == "<worker:direct>"
NoSnapshot == [config |-> NullConfig, options |-> NullOptions]

\* the isolates of a process: the main thread's and one worker's
Isolates == {"main", "worker"}
\* the owner of a mutex nobody holds
Free == "<free>"
\* a thread that runs JavaScript, outside the native code
IDLE == "idle"
\* no parent promise, no promise
NoParent == 0
IdleThread ==
    [pc |-> IDLE, unit |-> NoParent, parent |-> NoParent, origin |-> "",
     g_contextStack |-> <<MAIN>>, promiseHook |-> FALSE, acquired |-> <<>>]

\* native/preload/dotnope_preload.c: the states of init_once, and the statics
\* of the library before its initialisation
PTHREAD_ONCE_INIT == "PTHREAD_ONCE_INIT"
IN_PROGRESS == "in progress"
DONE == "done"
STDERR == "stderr"
NoPolicy ==
    [real_functions |-> FALSE, allowed_vars |-> <<>>, policy_loaded |-> FALSE,
     log_enabled |-> FALSE, log_file |-> <<>>]
\* an environment block: <<>> for a variable that is not set, <<value>> for
\* one that is; the value of DOTNOPE_POLICY is kept character by character
NoEnviron ==
    [DOTNOPE_LOG |-> <<>>, DOTNOPE_POLICY |-> <<>>, A |-> <<"a">>, B |-> <<>>,
     PATH |-> <<"/bin">>]

InitProcess(graphs, natives, mainThreads, manifests, environs) ==
    /\ manifest \in manifests
    /\ environ \in environs
    /\ init_once = PTHREAD_ONCE_INIT
    /\ policy_mutex = Free
    /\ preload = NoPolicy
    /\ frames = <<>>
    /\ threads = [t \in Isolates |-> IdleThread]
    /\ g_mutex = Free
    /\ g_contextStackMutex = Free
    /\ g_enabled = FALSE
    /\ g_promiseOrigins = EmptyMap
    /\ g_resolvedPromises = {}
    /\ g_contextStack = <<MAIN>>
    /\ running = <<>>
    /\ packageCache = {}
    /\ validationCache = {}
    /\ isMainThread \in mainThreads
    /\ workerAllowed = FALSE
    /\ configPath = NO_PATH
    /\ snapshot = NoSnapshot
    /\ isInitialized = FALSE
    /\ disableToken = NullToken
    /\ globalHandle = NullToken
    /\ accessCounts = EmptyMap
    /\ cachedConfig = NullConfig
    /\ cachedOptions = NullOptions
    /\ envVarAllowedCache = EmptyMap
    /\ proxyEnv = FALSE
    /\ isEnabled = FALSE
    /\ checkAccessFn = FALSE
    /\ filterKeysFn = FALSE
    /\ proxyOptions = NoOptions
    /\ env = {"K"}
    /\ depGraph \in graphs
    /\ nativeAvailable \in natives
    /\ handles = {}
    /\ tokensIssued = 0
    /\ trapCalls = 0
    /\ last = Obs("init", OK, NullToken, NullToken, "", NoCaller, "", TRUE, FALSE)

InitFull(graphs, natives, mainThreads, manifests) ==
    InitProcess(graphs, natives, mainThreads, manifests, {NoEnviron})

InitWith(graphs, natives, mainThreads) ==
    InitFull(graphs, natives, mainThreads, {EmptyMap})

Init == InitWith({ChainDeps}, BOOLEAN, {TRUE})

(***************************************************************************)
(* native/src/promise_hooks.cc: async context tracking.  A deferred unit   *)
(* (promise) is named by its address.  The source keeps 1000 settled and   *)
(* 10000 tracked units; the runs keep the two limits small.                *)
(***************************************************************************)
CLEANUP_THRESHOLD == 2
MAX_TRACKED_PROMISES == 2

\* the addresses a promise can have
UnitIds == 1..MaxUnits

pushContext(stack, context) == Append(stack, context)

\* a pop that does not keep the bottom element
popContextAlways(stack) == SubSeq(stack, 1, Len(stack) - 1)

\* if (g_contextStack.size() > 1) g_contextStack.pop_back()
popContext(stack) ==
    IF Len(stack) > 1 THEN SubSeq(stack, 1, Len(stack) - 1) ELSE stack

getCurrentContext(stack) == IF stack = <<>> THEN MAIN ELSE stack[Len(stack)]

resetContextStack == <<MAIN>>

cleanupResolvedPromises(origins, resolved) ==
    [u \in DOMAIN origins \ resolved |-> origins[u]]

\* kInit skips frames without a script name, Node.js internals and every
\* path that contains "dotnope/"
hookSkipsFrame(frame) ==
    \/ frame.file = NoFile
    \/ frame.file[1] \in {"node:", "internal"}
    \/ \E i \in 1..(Len(frame.file) - 1) : frame.file[i] = "dotnope"

\* the identity of the first frame kInit does not skip, "" if there is none
captureOrigin(stack) ==
    LET idx == {i \in 1..Len(stack) : i <= 10 /\ ~hookSkipsFrame(stack[i])}
    IN IF idx = {} THEN ""
       ELSE ExtractPackageName(stack[CHOOSE i \in idx : \A j \in idx : i <= j].file)

\* an inheritance that ignores the parent
inheritedOriginNone(origins, parentId) == ""

\* the origin of the parent promise, "" if there is no parent or the store
\* does not hold it
inheritedOrigin(origins, parentId) ==
    IF parentId # NoParent /\ parentId \in DOMAIN origins THEN origins[parentId] ELSE ""

originOf(origins, parentId, stack) ==
    LET inherited == inheritedOrigin(origins, parentId)
        origin == IF inherited = "" THEN captureOrigin(stack) ELSE inherited
    IN IF origin = "" THEN MAIN ELSE origin

\* a store that never notices that it is full
storeNeverFull(origins) == FALSE

\* g_promiseOrigins.size() >= MAX_TRACKED_PROMISES
storeFull(origins) == Cardinality(DOMAIN origins) >= MAX_TRACKED_PROMISES

\* PromiseHookCallback, kInit
kInit(promiseId, parentId, stack) ==
    LET origin == originOf(g_promiseOrigins, parentId, stack)
        base == IF storeFull(g_promiseOrigins) THEN EmptyMap ELSE g_promiseOrigins
    IN /\ g_promiseOrigins' =
             [u \in DOMAIN base \cup {promiseId} |->
                 IF u = promiseId THEN origin ELSE base[u]]
       /\ g_resolvedPromises' =
             IF storeFull(g_promiseOrigins) THEN {} ELSE g_resolvedPromises
       /\ UNCHANGED g_contextStack

\* PromiseHookCallback, kBefore
kBefore(promiseId) ==
    /\ g_contextStack' = IF promiseId \in DOMAIN g_promiseOrigins
                         THEN pushContext(g_contextStack, g_promiseOrigins[promiseId])
                         ELSE g_contextStack
    /\ UNCHANGED <<g_promiseOrigins, g_resolvedPromises>>

\* PromiseHookCallback, kAfter
kAfter ==
    /\ g_contextStack' = popContext(g_contextStack)
    /\ UNCHANGED <<g_promiseOrigins, g_resolvedPromises>>

\* PromiseHookCallback, kResolve
kResolve(promiseId) ==
    LET resolved == g_resolvedPromises \cup {promiseId} IN
    /\ IF Cardinality(resolved) >= CLEANUP_THRESHOLD
       THEN /\ g_promiseOrigins' = cleanupResolvedPromises(g_promiseOrigins, resolved)
            /\ g_resolvedPromises' = {}
       ELSE /\ g_resolvedPromises' = resolved
            /\ UNCHANGED g_promiseOrigins
    /\ UNCHANGED g_contextStack

\* enablePromiseHooks(), the addon's Enable(): SetPromiseHook(PromiseHookCallback)
enablePromiseHooks ==
    /\ g_enabled' = TRUE
    /\ UNCHANGED <<g_promiseOrigins, g_resolvedPromises, g_contextStack, running>>

\* DisableInternal(): SetPromiseHook(nullptr), clear, reset
DisableInternal ==
    IF ~g_enabled THEN UNCHANGED hookVars
    ELSE /\ g_promiseOrigins' = EmptyMap
         /\ g_resolvedPromises' = {}
         /\ g_contextStack' = resetContextStack
         /\ g_enabled' = FALSE
         \* the continuations V8 is running have lost the context they pushed
         /\ running' = [i \in DOMAIN running |-> [running[i] EXCEPT !.hooked = FALSE]]

\* GetAsyncContext(): null while the hooks are off
GetAsyncContext == IF g_enabled THEN getCurrentContext(g_contextStack) ELSE NoContext

(***************************************************************************)
(* lib/strictenv.js: enableStrictEnv                                       *)
(***************************************************************************)
\* createHandle(): the handle closes over the token of the moment; a handle
\* is identified with that token
createHandle(token) == token

\* options.workerConfig: absent, or the value the caller holds
NoWorkerConfig == [given |-> FALSE, value |-> NoSnapshot]
WorkerConfig(v) == [given |-> TRUE, value |-> v]

\* a JavaScript object read as a policy entry by normalizeConfig: none of
\* its own keys is an array or a number, so only a key named
\* allowPeerDependencies would be seen (as a truthy value); null is skipped
objectAsEntry(loaded, ownKeys) ==
    IF ~loaded THEN RawInvalid
    ELSE RawObject(None, None, None, "allowPeerDependencies" \in ownKeys, None, None)

\* loadConfig(customPath, directConfig) with a direct config:
\* whitelist = directConfig.environmentWhitelist || directConfig
directWhitelist(directConfig) ==
    ("config" :> objectAsEntry(directConfig.config.loaded,
                               DOMAIN directConfig.config.entries))
    @@ ("options" :> objectAsEntry(directConfig.options.loaded,
                                   DOMAIN directConfig.options.value))

\* the whitelist loadConfig normalizes and the path it records
loadedWhitelist(src, workerConfig) ==
    IF ~isMainThread /\ workerConfig.given THEN directWhitelist(workerConfig.value)
    ELSE src
loadedPath(workerConfig) ==
    IF ~isMainThread /\ workerConfig.given THEN DIRECT_PATH ELSE MANIFEST_PATH

ERR_WORKER_NOT_ALLOWED == "ERR_DOTNOPE_WORKER_NOT_ALLOWED"

\* a worker check that lets every thread through
workerNeverBlocked(allowInWorker) == FALSE

\* if (!isMainThread) { if (!options.allowInWorker) throw ... }
workerBlocked(allowInWorker) == ~isMainThread /\ ~allowInWorker

\* a repeated enable that starts the statistics afresh
returnFreshHandle(allowInWorker) ==
    /\ last' = EnableObs(OK, globalHandle, allowInWorker)
    /\ accessCounts' = EmptyMap
    /\ UNCHANGED <<isInitialized, disableToken, globalHandle, configVars, depVars,
                   proxyVars, worldVars, parserVars, hookVars, env, handles, tokensIssued, trapCalls,
                   workerAllowed, snapshot>>

\* if (isInitialized) return globalHandle
returnExistingHandle(allowInWorker) ==
    /\ last' = EnableObs(OK, globalHandle, allowInWorker)
    /\ UNCHANGED <<engineVars, configVars, depVars, proxyVars, worldVars, parserVars, hookVars, env,
                   handles, tokensIssued, trapCalls, workerAllowed, snapshot>>

\* a loader that answers an unreadable manifest with the empty policy and
\* the default options, and lets the session start
loadConfigDefaults(allowInWorker, workerConfig) ==
    /\ cachedConfig' = [loaded |-> TRUE, entries |-> EmptyMap]
    /\ cachedOptions' = [loaded |-> TRUE, value |-> DEFAULT_OPTIONS]
    /\ configPath' = loadedPath(workerConfig)
    /\ proxyEnv' = TRUE
    /\ checkAccessFn' = TRUE
    /\ proxyOptions' = DEFAULT_OPTIONS
    /\ filterKeysFn' = TRUE
    /\ isEnabled' = TRUE
    /\ isInitialized' = TRUE
    /\ globalHandle' = NullToken
    /\ last' = EnableObs(ERR_CONFIG, NullToken, allowInWorker)
    /\ UNCHANGED <<accessCounts, depVars, hookVars, handles, trapCalls>>

\* loadConfig throws (manifest missing, unreadable or not JSON); the token
\* has been drawn before, and configPath = pkgPath precedes the read
loadConfigThrows(allowInWorker, workerConfig) ==
    /\ last' = EnableObs(ERR_CONFIG, NullToken, allowInWorker)
    /\ configPath' = loadedPath(workerConfig)
    /\ UNCHANGED <<isInitialized, globalHandle, accessCounts, cachedConfig,
                   cachedOptions, depVars, proxyVars, hookVars, handles, trapCalls>>

enableStrictEnv(src, tooManyModules, allowInWorker, workerConfig) ==
    IF isInitialized THEN returnExistingHandle(allowInWorker)
    ELSE IF tooManyModules THEN
        /\ last' = EnableObs(ERR_LOAD_ORDER, NullToken, allowInWorker)
        /\ UNCHANGED <<engineVars, configVars, depVars, proxyVars, worldVars, parserVars, hookVars, env,
                       handles, tokensIssued, trapCalls, workerAllowed, snapshot>>
    ELSE IF workerBlocked(allowInWorker) THEN
        /\ last' = EnableObs(ERR_WORKER_NOT_ALLOWED, NullToken, allowInWorker)
        /\ UNCHANGED <<engineVars, configVars, depVars, proxyVars, worldVars, parserVars, hookVars, env,
                       handles, tokensIssued, trapCalls, workerAllowed, snapshot>>
    ELSE
        /\ tokensIssued < MaxSessions
        /\ workerAllowed' = (workerAllowed \/ ~isMainThread)
        /\ tokensIssued' = tokensIssued + 1
        /\ disableToken' = tokensIssued + 1
        /\ IF loadedWhitelist(src, workerConfig) = Unloadable
           THEN loadConfigThrows(allowInWorker, workerConfig)
           ELSE
               LET n == normalizeConfig(loadedWhitelist(src, workerConfig)) IN
               /\ cachedConfig' = [loaded |-> TRUE, entries |-> n.config]
               /\ cachedOptions' = [loaded |-> TRUE, value |-> n.options]
               /\ configPath' = loadedPath(workerConfig)
               \* createEnvProxy(checkAccess, configOptions)
               /\ proxyEnv' = TRUE
               /\ checkAccessFn' = TRUE
               /\ proxyOptions' = n.options
               \* setFilterKeysFn(filterKeys) if protectEnumeration
               /\ filterKeysFn' = n.options.protectEnumeration
               \* nativeBridge.enablePromiseHooks() if the addon is available
               /\ IF nativeAvailable THEN enablePromiseHooks ELSE UNCHANGED hookVars
               \* enable()
               /\ isEnabled' = TRUE
               /\ isInitialized' = TRUE
               /\ globalHandle' = createHandle(tokensIssued + 1)
               /\ handles' = handles \cup {createHandle(tokensIssued + 1)}
               /\ trapCalls' = 0
               /\ last' = EnableObs(OK, createHandle(tokensIssued + 1), allowInWorker)
               /\ UNCHANGED <<accessCounts, depVars>>
        /\ UNCHANGED <<worldVars, parserVars, env, snapshot>>

(***************************************************************************)
(* lib/strictenv.js: handle.disable(providedToken)                         *)
(***************************************************************************)
\* a comparison that lets a missing token through
tokenMismatchLoose(providedToken, token) ==
    providedToken # token /\ providedToken # NullToken

\* providedToken !== token, for the handle that closed over 'token'
tokenMismatch(providedToken, token) == providedToken # token

\* a teardown that keeps the statistics
disableKeepingCounts ==
    /\ IF nativeAvailable THEN DisableInternal ELSE UNCHANGED hookVars
    /\ isEnabled' = FALSE
    /\ proxyEnv' = FALSE
    /\ checkAccessFn' = FALSE
    /\ filterKeysFn' = FALSE
    /\ proxyOptions' = NoOptions
    /\ isInitialized' = FALSE
    /\ disableToken' = NullToken
    /\ globalHandle' = NullToken
    /\ cachedConfig' = NullConfig
    /\ cachedOptions' = NullOptions
    /\ configPath' = NO_PATH
    /\ envVarAllowedCache' = EmptyMap
    /\ accessCounts' = accessCounts

disableStrictEnvInternal ==
    \* nativeBridge.disablePromiseHooks() if the addon is available
    /\ IF nativeAvailable THEN DisableInternal ELSE UNCHANGED hookVars
    \* disable(); restore()
    /\ isEnabled' = FALSE
    /\ proxyEnv' = FALSE
    /\ checkAccessFn' = FALSE
    /\ filterKeysFn' = FALSE
    /\ proxyOptions' = NoOptions
    /\ isInitialized' = FALSE
    /\ disableToken' = NullToken
    /\ globalHandle' = NullToken
    \* clearConfigCache(); clearDepCache(); accessCounts.clear()
    /\ cachedConfig' = NullConfig
    /\ cachedOptions' = NullOptions
    /\ configPath' = NO_PATH
    /\ envVarAllowedCache' = EmptyMap
    /\ accessCounts' = EmptyMap

handleDisable(h, providedToken) ==
    /\ h \in handles
    /\ IF tokenMismatch(providedToken, h) THEN
           /\ last' = Obs("disable", ERR_INVALID_TOKEN, h, providedToken, "", NoCaller,
                          "", TRUE, FALSE)
           /\ UNCHANGED <<engineVars, configVars, depVars, proxyVars, hookVars, trapCalls>>
       ELSE
           /\ disableStrictEnvInternal
           /\ trapCalls' = 0
           /\ last' = Obs("disable", OK, h, providedToken, "", NoCaller, "", TRUE, FALSE)
    /\ UNCHANGED <<worldVars, parserVars, env, handles, tokensIssued, workerAllowed, snapshot>>

ERR_DEPRECATED == "ERR_DOTNOPE_DEPRECATED"

\* a no-token disable that tears the session down
disableStrictEnvUnprotected ==
    /\ IF isInitialized
       THEN disableStrictEnvInternal /\ trapCalls' = 0
       ELSE UNCHANGED <<engineVars, configVars, depVars, proxyVars, hookVars, trapCalls>>
    /\ last' = Obs("disableStrictEnv", OK, NullToken, NullToken, "", NoCaller, "", TRUE, FALSE)
    /\ UNCHANGED <<worldVars, parserVars, env, handles, tokensIssued, workerAllowed, snapshot>>

\* the legacy entry point disableStrictEnv(): always throws
disableStrictEnv ==
    /\ last' = Obs("disableStrictEnv", ERR_DEPRECATED, NullToken, NullToken, "", NoCaller,
                   "", TRUE, FALSE)
    /\ UNCHANGED <<engineVars, configVars, depVars, proxyVars, worldVars, parserVars, hookVars, env, handles,
                   tokensIssued, trapCalls, workerAllowed, snapshot>>

(***************************************************************************)
(* lib/proxy.js: the traps on process.env                                  *)
(***************************************************************************)
applyOp(e, operation, key) ==
    IF operation = "write" THEN e \cup {key}
    ELSE IF operation = "delete" THEN e \ {key}
    ELSE e

\* the property name the get trap passes through for Node.js inspection
INSPECT == "inspect"

\* a trap that checks whatever the protect options say
trapChecksAlways(call, operation, key) ==
    /\ proxyEnv
    /\ isEnabled
    /\ checkAccessFn
    /\ (call = "get" => key # INSPECT)

\* whether the trap 'call' calls checkAccessFn for 'key'
trapChecks(call, operation, key) ==
    /\ proxyEnv
    /\ isEnabled
    /\ checkAccessFn
    /\ (call = "get" => key # INSPECT)
    /\ \/ operation = "read"
       \/ operation = "write" /\ proxyOptions.protectWrites
       \/ operation = "delete" /\ proxyOptions.protectDeletes

\* a trap that performs the operation whatever the check says
trapUnconditional(call, operation, key, stack, asyncContext) ==
    LET info == getCallingPackage(nativeAvailable, stack, asyncContext, 0)
        d == checkAccess(info, cachedOptions.value, cachedConfig.entries, accessCounts,
                         envVarAllowedCache, depGraph, key, operation)
    IN /\ trapCalls < MaxAccesses
       /\ trapCalls' = trapCalls + 1
       /\ env' = applyOp(env, operation, key)
       /\ IF trapChecks(call, operation, key) THEN
              /\ accessCounts' = d.counts
              /\ envVarAllowedCache' = d.cache
              /\ getCallingPackageCaches(stack, asyncContext)
              /\ last' = Obs(call, d.code, NullToken, NullToken, key, info,
                             claimedIdentity(stack), claimValid(stack), TRUE)
          ELSE
              /\ last' = Obs(call, OK, NullToken, NullToken, key, NoCaller,
                             claimedIdentity(stack), claimValid(stack), FALSE)
              /\ UNCHANGED <<accessCounts, envVarAllowedCache, parserVars>>
       /\ UNCHANGED <<isInitialized, disableToken, globalHandle, configVars, proxyVars,
                      worldVars, hookVars, handles, tokensIssued, workerAllowed, snapshot>>

trap(call, operation, key, stack, asyncContext) ==
    LET info == getCallingPackage(nativeAvailable, stack, asyncContext, 0)
        d == checkAccess(info, cachedOptions.value, cachedConfig.entries, accessCounts,
                         envVarAllowedCache, depGraph, key, operation)
    IN /\ trapCalls < MaxAccesses
       /\ trapCalls' = trapCalls + 1
       /\ IF trapChecks(call, operation, key) THEN
              /\ accessCounts' = d.counts
              /\ envVarAllowedCache' = d.cache
              /\ getCallingPackageCaches(stack, asyncContext)
              /\ env' = IF d.code = OK THEN applyOp(env, operation, key) ELSE env
              /\ last' = Obs(call, d.code, NullToken, NullToken, key, info,
                             claimedIdentity(stack), claimValid(stack), TRUE)
          ELSE
              /\ env' = applyOp(env, operation, key)
              /\ last' = Obs(call, OK, NullToken, NullToken, key, NoCaller,
                             claimedIdentity(stack), claimValid(stack), FALSE)
              /\ UNCHANGED <<accessCounts, envVarAllowedCache, parserVars>>
       /\ UNCHANGED <<isInitialized, disableToken, globalHandle, configVars, proxyVars,
                      worldVars, hookVars, handles, tokensIssued, workerAllowed, snapshot>>

envGet(key, stack, asyncContext) == trap("get", "read", key, stack, asyncContext)
envSet(key, stack, asyncContext) == trap("set", "write", key, stack, asyncContext)
envDelete(key, stack, asyncContext) == trap("delete", "delete", key, stack, asyncContext)
envHas(key, stack, asyncContext) == trap("has", "read", key, stack, asyncContext)
envGetOwnPropertyDescriptor(key, stack, asyncContext) ==
    trap("getOwnPropertyDescriptor", "read", key, stack, asyncContext)
envDefineProperty(key, stack, asyncContext) ==
    trap("defineProperty", "write", key, stack, asyncContext)

(***************************************************************************)
(* lib/strictenv.js: filterKeys, and the ownKeys trap of lib/proxy.js      *)
(***************************************************************************)
\* filterKeys returns null to skip filtering
SkipFiltering == [filtered |-> FALSE, keys |-> {}]
Filtered(keys) == [filtered |-> TRUE, keys |-> keys]

\* a filter that shows everything to a package without an entry
filterKeysLenient(callerInfo, options, config, allKeys) ==
    IF ~callerInfo.found THEN
        IF options.failClosed THEN Filtered({}) ELSE SkipFiltering
    ELSE IF callerInfo.packageName = MAIN THEN SkipFiltering
    ELSE IF callerInfo.packageName \notin DOMAIN config THEN SkipFiltering
    ELSE IF WILDCARD \in config[callerInfo.packageName].allowed THEN SkipFiltering
    ELSE Filtered(allKeys \cap config[callerInfo.packageName].allowed)

filterKeys(callerInfo, options, config, allKeys) ==
    IF ~callerInfo.found THEN
        IF options.failClosed THEN Filtered({}) ELSE SkipFiltering
    ELSE IF callerInfo.packageName = MAIN THEN SkipFiltering
    ELSE IF callerInfo.packageName \notin DOMAIN config THEN Filtered({})
    ELSE IF WILDCARD \in config[callerInfo.packageName].allowed THEN SkipFiltering
    ELSE Filtered(allKeys \cap config[callerInfo.packageName].allowed)

\* whether the ownKeys trap calls filterKeysFn
ownKeysFilters == proxyEnv /\ isEnabled /\ proxyOptions.protectEnumeration /\ filterKeysFn

envOwnKeys(stack, asyncContext) ==
    LET info == getCallingPackage(nativeAvailable, stack, asyncContext, 0)
        f == filterKeys(info, cachedOptions.value, cachedConfig.entries, env)
    IN /\ trapCalls < MaxAccesses
       /\ trapCalls' = trapCalls + 1
       /\ last' = [Obs("ownKeys", OK, NullToken, NullToken, "",
                       IF ownKeysFilters THEN info ELSE NoCaller,
                       claimedIdentity(stack), claimValid(stack), ownKeysFilters)
                   EXCEPT !.keys = IF ownKeysFilters /\ f.filtered THEN f.keys ELSE env]
       /\ IF ownKeysFilters THEN getCallingPackageCaches(stack, asyncContext)
          ELSE UNCHANGED parserVars
       /\ UNCHANGED <<engineVars, configVars, depVars, proxyVars, worldVars, hookVars, env, handles,
                      tokensIssued, workerAllowed, snapshot>>

\* the async context is consulted only when the native walk finds no frame
ContextsFor(stack) ==
    IF nativeAvailable /\ ~nativeGetCallerInfo(stack, 0).found
    THEN AsyncContexts ELSE {NoContext}

(***************************************************************************)
(* Spec: sessions.  Enable, disable through any handle with any token, and *)
(* accesses inside and outside a session.                                  *)
(***************************************************************************)
Enable ==
    \E src \in SessionSources \cup {Unloadable}, tooManyModules \in BOOLEAN :
        enableStrictEnv(src, tooManyModules, FALSE, NoWorkerConfig)
Disable == \E h \in handles, t \in ProvidedTokens : handleDisable(h, t)
Get == \E key \in Keys, stack \in SessionStacks : \E ctx \in ContextsFor(stack) :
          envGet(key, stack, ctx)
Set == \E key \in Keys, stack \in SessionStacks : \E ctx \in ContextsFor(stack) :
          envSet(key, stack, ctx)
Delete == \E key \in Keys, stack \in SessionStacks : \E ctx \in ContextsFor(stack) :
          envDelete(key, stack, ctx)

LegacyDisable == disableStrictEnv

Next == Enable \/ Disable \/ LegacyDisable \/ Get \/ Set \/ Delete

Spec == Init /\ [][Next]_vars

(***************************************************************************)
(* SpecAccess: one session under every combination of the global options,  *)
(* accessed from every kind of call stack.                                 *)
(***************************************************************************)
AccessEnable ==
    /\ ~isInitialized
    /\ \E src \in AccessSources : enableStrictEnv(src, FALSE, FALSE, NoWorkerConfig)
AccessGet ==
    /\ isInitialized
    /\ \E key \in Keys, stack \in Stacks : \E ctx \in ContextsFor(stack) :
          envGet(key, stack, ctx)
AccessSet ==
    /\ isInitialized
    /\ \E key \in Keys, stack \in Stacks : \E ctx \in ContextsFor(stack) :
          envSet(key, stack, ctx)
AccessDelete ==
    /\ isInitialized
    /\ \E key \in Keys, stack \in Stacks : \E ctx \in ContextsFor(stack) :
          envDelete(key, stack, ctx)

NextAccess == AccessEnable \/ AccessGet \/ AccessSet \/ AccessDelete

SpecAccess == Init /\ [][NextAccess]_vars

(***************************************************************************)
(* SpecPolicy: one session per policy and dependency graph, accessed by    *)
(* identified packages.                                                    *)
(***************************************************************************)
InitPolicy == InitWith(Graphs, {FALSE}, {TRUE})

PolicyEnable ==
    /\ ~isInitialized
    /\ \E src \in PolicySources : enableStrictEnv(src, FALSE, FALSE, NoWorkerConfig)
PolicyGet ==
    /\ isInitialized
    /\ \E key \in Keys, stack \in PolicyStacks : envGet(key, stack, NoContext)
PolicySet ==
    /\ isInitialized
    /\ \E key \in Keys, stack \in PolicyStacks : envSet(key, stack, NoContext)
PolicyDelete ==
    /\ isInitialized
    /\ \E key \in Keys, stack \in PolicyStacks : envDelete(key, stack, NoContext)

NextPolicy == PolicyEnable \/ PolicyGet \/ PolicySet \/ PolicyDelete

SpecPolicy == InitPolicy /\ [][NextPolicy]_vars

(***************************************************************************)
(* SpecProxy: one session under every combination of the global options,   *)
(* with every trap of the proxy called by the main application, listed and *)
(* unlisted packages, an eval-like caller and an unresolvable one.         *)
(***************************************************************************)
ProxyPolicy ==
    ("P" :> RawObject(Some({"K"}), Some({"K"}), Some({WILDCARD}), TRUE, Some(1), None))
    @@ ("R" :> RawArray({WILDCARD}))
ProxySources ==
    {EmptyMap, ProxyPolicy,
     withOptions(ProxyPolicy, RawOptions(None, None, None, Some(FALSE)))}
    \cup {withOptions(ProxyPolicy, RawOptions(Some(fc), Some(pw), Some(pd), Some(TRUE))) :
             fc \in BOOLEAN, pw \in BOOLEAN, pd \in BOOLEAN}
ProxyStacks ==
    {<<PlainFrame(AppFile)>>, <<PlainFrame(PkgFile("P"))>>, <<PlainFrame(PkgFile("Q"))>>,
     <<PlainFrame(PkgFile("R"))>>, <<EvalNamedFrame(PkgFile("P"))>>, <<>>}
ProxyKeys == Keys \cup {INSPECT}

InitProxy == InitWith({ChainDeps}, {FALSE}, {TRUE})

ProxyEnable ==
    /\ ~isInitialized
    /\ \E src \in ProxySources : enableStrictEnv(src, FALSE, FALSE, NoWorkerConfig)
ProxyGet ==
    /\ isInitialized
    /\ \E key \in ProxyKeys, stack \in ProxyStacks : envGet(key, stack, NoContext)
ProxyHas ==
    /\ isInitialized
    /\ \E key \in ProxyKeys, stack \in ProxyStacks : envHas(key, stack, NoContext)
ProxyGetOwnPropertyDescriptor ==
    /\ isInitialized
    /\ \E key \in Keys, stack \in ProxyStacks :
          envGetOwnPropertyDescriptor(key, stack, NoContext)
ProxySet ==
    /\ isInitialized
    /\ \E key \in Keys, stack \in ProxyStacks : envSet(key, stack, NoContext)
ProxyDefineProperty ==
    /\ isInitialized
    /\ \E key \in Keys, stack \in ProxyStacks : envDefineProperty(key, stack, NoContext)
ProxyDelete ==
    /\ isInitialized
    /\ \E key \in Keys, stack \in ProxyStacks : envDelete(key, stack, NoContext)
ProxyOwnKeys ==
    /\ isInitialized
    /\ \E stack \in ProxyStacks : envOwnKeys(stack, NoContext)

NextProxy ==
    \/ ProxyEnable \/ ProxyGet \/ ProxyHas \/ ProxyGetOwnPropertyDescriptor
    \/ ProxySet \/ ProxyDefineProperty \/ ProxyDelete \/ ProxyOwnKeys

SpecProxy == InitProxy /\ [][NextProxy]_vars

(***************************************************************************)
(* SpecNormalize: the manifest on disk is one of a family of policy        *)
(* sources of every entry format; a session loads it and is accessed.      *)
(***************************************************************************)
\* entries of identity P: every format, fields present and missing
NormalizeEntriesP ==
    {RawString("K"), RawString("L"), RawArray({}), RawArray({"K", "L"}),
     RawArray({WILDCARD}), RawInvalid}
    \cup {RawObject(al, cw, None, peer, depth, excl) :
            al \in {None, Some({"K"})}, cw \in {None, Some({"L"})},
            peer \in BOOLEAN, depth \in {None, Some(0), Some(2)},
            excl \in {None, Some({"Q"})}}
    \cup {RawObject(None, None, Some({WILDCARD}), FALSE, None, None)}

\* the values of the reserved key: option objects and a value that is none
NormalizeOptions ==
    {RawOptions(fc, pw, pd, pe) :
        fc \in {None, Some(FALSE)}, pw \in {None, Some(TRUE)},
        pd \in {Some(FALSE), Some(TRUE)}, pe \in {None}}
    \cup {RawOptions(None, None, None, Some(FALSE)), RawArray({"K"})}

NormalizeSources ==
    {("P" :> e) : e \in NormalizeEntriesP}
    \cup {("P" :> e) @@ ("Q" :> RawString("L")) : e \in NormalizeEntriesP}
    \cup {withOptions(("P" :> e), o) : e \in {RawString("K"), RawArray({"K", "L"}),
             RawObject(Some({"K"}), None, None, TRUE, None, None)},
                                       o \in NormalizeOptions}

InitNormalize == InitFull({ChainDeps}, {FALSE}, {TRUE}, NormalizeSources)

NormalizeEnable ==
    /\ ~isInitialized
    /\ enableStrictEnv(manifest, FALSE, FALSE, NoWorkerConfig)
NormalizeGet ==
    /\ isInitialized
    /\ \E key \in Keys, stack \in PolicyStacks : envGet(key, stack, NoContext)
NormalizeSet ==
    /\ isInitialized
    /\ \E key \in Keys, stack \in PolicyStacks : envSet(key, stack, NoContext)

NextNormalize == NormalizeEnable \/ NormalizeGet \/ NormalizeSet

SpecNormalize == InitNormalize /\ [][NextNormalize]_vars

(***************************************************************************)
(* The events V8 delivers to the promise hooks.  SpecHooks: units are      *)
(* created with and without a parent from several stacks and settle.       *)
(* SpecContexts: units are created and their continuations start and end,  *)
(* nested up to MaxNesting.  In both the hooks are switched on and off at  *)
(* any moment.                                                             *)
(***************************************************************************)
nonHookVars == <<engineVars, configVars, depVars, proxyVars, worldVars, parserVars, env, handles,
                 tokensIssued, trapCalls, workerAllowed, snapshot>>

\* the stacks a promise is created from: the application, a package, a
\* package below a frame of the library, and eval code without script name
HookStacks ==
    {<<PlainFrame(AppFile)>>, <<PlainFrame(PkgFile("P"))>>,
     <<PlainFrame(DotnopeProxyFile), PlainFrame(PkgFile("Q"))>>, <<EvalCodeFrame>>}
ContextStacks == {<<PlainFrame(AppFile)>>, <<PlainFrame(PkgFile("P"))>>}

HookObs(type, promiseId, parentId, captured) ==
    [Obs(type, OK, NullToken, NullToken, "", NoCaller, captured, TRUE, FALSE)
        EXCEPT !.unit = promiseId, !.parent = parentId]

InitHooks == InitWith({ChainDeps}, {TRUE}, {TRUE})

HooksOn == enablePromiseHooks /\ UNCHANGED <<nonHookVars, last>>
HooksOff == DisableInternal /\ UNCHANGED <<nonHookVars, last>>

\* V8 creates a promise; the hook runs if it is installed
UnitCreated(parents, stacks) ==
    \E promiseId \in UnitIds, parentId \in parents, stack \in stacks :
        /\ parentId # promiseId
        /\ g_enabled
        /\ kInit(promiseId, parentId, stack)
        /\ last' = HookObs("kInit", promiseId, parentId, captureOrigin(stack))
        /\ UNCHANGED <<g_enabled, running, nonHookVars>>

\* V8 settles a promise
UnitSettled ==
    \E promiseId \in UnitIds :
        /\ g_enabled
        /\ kResolve(promiseId)
        /\ last' = HookObs("kResolve", promiseId, NoParent, "")
        /\ UNCHANGED <<g_enabled, running, nonHookVars>>

\* V8 starts the continuation of a promise; 'saved' is the context stack
\* it finds, 'identity' what the store holds for the promise (<<>> when
\* nothing), and 'hooked' whether the hook has been installed ever since
ContinuationStarts ==
    \E promiseId \in UnitIds :
        /\ Len(running) < MaxNesting
        /\ running' = Append(running,
              [unit |-> promiseId, saved |-> g_contextStack,
               identity |-> IF promiseId \in DOMAIN g_promiseOrigins
                            THEN <<g_promiseOrigins[promiseId]>> ELSE <<>>,
               hooked |-> g_enabled])
        /\ IF g_enabled THEN kBefore(promiseId)
           ELSE UNCHANGED <<g_promiseOrigins, g_resolvedPromises, g_contextStack>>
        /\ UNCHANGED <<g_enabled, nonHookVars, last>>

\* the innermost running continuation returns
ContinuationEnds ==
    /\ running # <<>>
    /\ running' = SubSeq(running, 1, Len(running) - 1)
    /\ IF g_enabled THEN kAfter
       ELSE UNCHANGED <<g_promiseOrigins, g_resolvedPromises, g_contextStack>>
    /\ UNCHANGED <<g_enabled, nonHookVars, last>>

HooksCreate == UnitCreated(UnitIds \cup {NoParent}, HookStacks)
ContextsCreate == UnitCreated({NoParent}, ContextStacks)

NextHooks == HooksOn \/ HooksOff \/ HooksCreate \/ UnitSettled

SpecHooks == InitHooks /\ [][NextHooks]_vars

NextContexts ==
    HooksOn \/ HooksOff \/ ContextsCreate \/ ContinuationStarts \/ ContinuationEnds

SpecContexts == InitHooks /\ [][NextContexts]_vars

(***************************************************************************)
(* SpecIsolates: native/src/promise_hooks.cc run by the isolates of one    *)
(* process.  The addon is loaded once: g_mutex, g_promiseOrigins,          *)
(* g_resolvedPromises, g_enabled and g_contextStackMutex are statics that  *)
(* every isolate shares, g_contextStack is thread_local and SetPromiseHook *)
(* acts on the calling isolate.  A step is one access to shared state or   *)
(* one lock; thread-local statements belong to the step before them, and a *)
(* thread stays at the label of a lock until the mutex is free.  A read of *)
(* g_enabled that races with a write returns the value before or after it: *)
(* both are interleavings of these steps.                                  *)
(***************************************************************************)
G_MUTEX == "g_mutex"
G_CONTEXT_STACK_MUTEX == "g_contextStackMutex"

\* the statics of promise_hooks.cc that isolates share
SharedStatics == {"g_promiseOrigins", "g_resolvedPromises", "g_enabled"}

\* the promises each isolate creates, and the stack its code creates them from
unitsOf(isolate) == IF isolate = "main" THEN {1, 2} ELSE {3}
creatingStack(isolate) ==
    IF isolate = "main" THEN <<PlainFrame(PkgFile("P"))>> ELSE <<PlainFrame(PkgFile("Q"))>>

\* the labels where a thread takes a mutex: the mutex and the label after it
lockAt ==
    [Init_lockParent  |-> [mutex |-> G_MUTEX, next |-> "Init_find"],
     Init_lockStore   |-> [mutex |-> G_MUTEX, next |-> "Init_store"],
     Before_lock      |-> [mutex |-> G_MUTEX, next |-> "Before_find"],
     Before_lockStack |-> [mutex |-> G_CONTEXT_STACK_MUTEX, next |-> "Before_push"],
     After_lock       |-> [mutex |-> G_CONTEXT_STACK_MUTEX, next |-> "After_pop"],
     Resolve_lock     |-> [mutex |-> G_MUTEX, next |-> "Resolve_insert"],
     Disable_lock     |-> [mutex |-> G_MUTEX, next |-> "Disable_clear"],
     Disable_lockStack |-> [mutex |-> G_CONTEXT_STACK_MUTEX, next |-> "Disable_reset"],
     Stats_lock       |-> [mutex |-> G_MUTEX, next |-> "Stats_read"],
     Context_lock     |-> [mutex |-> G_CONTEXT_STACK_MUTEX, next |-> "Context_read"]]

\* the function a label lies in
functionOf(label) ==
    CASE label \in {"Init_lockParent", "Init_find", "Init_lockStore", "Init_store"} -> "kInit"
      [] label \in {"Before_lock", "Before_find", "Before_lockStack", "Before_push"} -> "kBefore"
      [] label \in {"After_lock", "After_pop"} -> "kAfter"
      [] label \in {"Resolve_lock", "Resolve_insert"} -> "kResolve"
      [] label \in {"Enable_install"} -> "Enable"
      [] label \in {"Disable_lock", "Disable_clear", "Disable_lockStack", "Disable_reset",
                    "Disable_write"} -> "DisableInternal"
      [] label \in {"Stats_lock", "Stats_read"} -> "GetStats"
      [] label \in {"Context_lock", "Context_read"} -> "GetAsyncContext"
      [] OTHER -> ""

\* a parent lookup whose lock_guard lives until the end of kInit
unlocksAtFunctionEnd(label, found) ==
    CASE label = "Init_find" -> {}
      [] label = "Init_store" -> {G_MUTEX}
      [] label = "Before_find" -> IF found THEN {} ELSE {G_MUTEX}
      [] label = "Before_push" -> {G_CONTEXT_STACK_MUTEX, G_MUTEX}
      [] label \in {"After_pop", "Disable_reset", "Context_read"} -> {G_CONTEXT_STACK_MUTEX}
      [] label \in {"Resolve_insert", "Disable_clear", "Stats_read"} -> {G_MUTEX}
      [] OTHER -> {}

\* the mutexes the lock_guards release when the statement at a label is done:
\* each guard lives to the end of its block
unlocks(label, found) ==
    CASE label = "Init_find" -> {G_MUTEX}
      [] label = "Init_store" -> {G_MUTEX}
      [] label = "Before_find" -> IF found THEN {} ELSE {G_MUTEX}
      [] label = "Before_push" -> {G_CONTEXT_STACK_MUTEX, G_MUTEX}
      [] label \in {"After_pop", "Disable_reset", "Context_read"} -> {G_CONTEXT_STACK_MUTEX}
      [] label \in {"Resolve_insert", "Disable_clear", "Stats_read"} -> {G_MUTEX}
      [] OTHER -> {}

without(acquired, mutexes) == SelectSeq(acquired, LAMBDA m : m \notin mutexes)

\* the observation of a step of isolate t in function fn: the shared statics
\* it reads or writes and the mutexes t holds while it does; code is OK when
\* the function returns with this step
RUNNING == "running"
AccessObs(fn, t, accessed, code, context) ==
    [Obs(fn, code, NullToken, NullToken, "", NoCaller, t, TRUE, FALSE)
        EXCEPT !.keys = accessed, !.held = threads[t].acquired, !.context = context]

nonIsolateVars ==
    <<engineVars, configVars, depVars, proxyVars, depGraph, nativeAvailable, isMainThread,
      manifest, preloadVars, parserVars, env, handles, tokensIssued, trapCalls,
      workerAllowed, snapshot, g_contextStack, running>>

\* the statement at the label of thread t is done: the guards of its block
\* release their mutexes and t goes on at label next
Proceeds(t, found, next, thread) ==
    LET released == unlocks(threads[t].pc, found) IN
    /\ threads' = [threads EXCEPT ![t] =
          [thread EXCEPT !.pc = next, !.acquired = without(@, released)]]
    /\ g_mutex' = IF G_MUTEX \in released THEN Free ELSE g_mutex
    /\ g_contextStackMutex' =
          IF G_CONTEXT_STACK_MUTEX \in released THEN Free ELSE g_contextStackMutex

\* a thread outside the native code calls into it, or V8 calls its hook
Enters(t, next, thread) ==
    /\ threads[t].pc = IDLE
    /\ threads' = [threads EXCEPT ![t] = [thread EXCEPT !.pc = next]]
    /\ UNCHANGED <<g_mutex, g_contextStackMutex>>

sharedUnchanged == UNCHANGED <<g_enabled, g_promiseOrigins, g_resolvedPromises>>

\* std::lock_guard<std::mutex> lock(...): blocks until the mutex is free
Lock(t) ==
    /\ threads[t].pc \in DOMAIN lockAt
    /\ LET l == lockAt[threads[t].pc] IN
       /\ IF l.mutex = G_MUTEX
          THEN g_mutex = Free /\ g_mutex' = t /\ UNCHANGED g_contextStackMutex
          ELSE g_contextStackMutex = Free /\ g_contextStackMutex' = t /\ UNCHANGED g_mutex
       /\ threads' = [threads EXCEPT ![t].pc = l.next, ![t].acquired = Append(@, l.mutex)]
       /\ last' = AccessObs(functionOf(threads[t].pc), t, {}, RUNNING, NoContext)
    /\ sharedUnchanged
    /\ UNCHANGED nonIsolateVars

\* Enable(): if (g_enabled) return true
IsolateEnable(t) ==
    /\ Enters(t, IF g_enabled THEN IDLE ELSE "Enable_install", threads[t])
    /\ last' = AccessObs("Enable", t, {"g_enabled"}, IF g_enabled THEN OK ELSE RUNNING,
                         NoContext)
    /\ sharedUnchanged
    /\ UNCHANGED nonIsolateVars

\* Enable(): isolate->SetPromiseHook(PromiseHookCallback); g_enabled = true
IsolateEnableInstall(t) ==
    /\ threads[t].pc = "Enable_install"
    /\ Proceeds(t, FALSE, IDLE, [threads[t] EXCEPT !.promiseHook = TRUE])
    /\ g_enabled' = TRUE
    /\ last' = AccessObs("Enable", t, {"g_enabled"}, OK, NoContext)
    /\ UNCHANGED <<g_promiseOrigins, g_resolvedPromises, nonIsolateVars>>

\* DisableInternal(): if (!g_enabled) return; isolate->SetPromiseHook(nullptr)
IsolateDisable(t) ==
    /\ IF g_enabled
       THEN Enters(t, "Disable_lock", [threads[t] EXCEPT !.promiseHook = FALSE])
       ELSE Enters(t, IDLE, threads[t])
    /\ last' = AccessObs("DisableInternal", t, {"g_enabled"},
                         IF g_enabled THEN RUNNING ELSE OK, NoContext)
    /\ sharedUnchanged
    /\ UNCHANGED nonIsolateVars

\* DisableInternal(): g_promiseOrigins.clear(); g_resolvedPromises.clear()
IsolateDisableClear(t) ==
    /\ threads[t].pc = "Disable_clear"
    /\ Proceeds(t, FALSE, "Disable_lockStack", threads[t])
    /\ g_promiseOrigins' = EmptyMap
    /\ g_resolvedPromises' = {}
    /\ last' = AccessObs("DisableInternal", t, {"g_promiseOrigins", "g_resolvedPromises"},
                         RUNNING, NoContext)
    /\ UNCHANGED <<g_enabled, nonIsolateVars>>

\* DisableInternal(): resetContextStack()
IsolateDisableReset(t) ==
    /\ threads[t].pc = "Disable_reset"
    /\ Proceeds(t, FALSE, "Disable_write",
                [threads[t] EXCEPT !.g_contextStack = resetContextStack])
    /\ last' = AccessObs("DisableInternal", t, {}, RUNNING, NoContext)
    /\ sharedUnchanged
    /\ UNCHANGED nonIsolateVars

\* DisableInternal(): g_enabled = false
IsolateDisableWrite(t) ==
    /\ threads[t].pc = "Disable_write"
    /\ Proceeds(t, FALSE, IDLE, threads[t])
    /\ g_enabled' = FALSE
    /\ last' = AccessObs("DisableInternal", t, {"g_enabled"}, OK, NoContext)
    /\ UNCHANGED <<g_promiseOrigins, g_resolvedPromises, nonIsolateVars>>

\* GetAsyncContext(): if (!g_enabled) return env.Null()
IsolateGetAsyncContext(t) ==
    /\ Enters(t, IF g_enabled THEN "Context_lock" ELSE IDLE, threads[t])
    /\ last' = AccessObs("GetAsyncContext", t, {"g_enabled"},
                         IF g_enabled THEN RUNNING ELSE OK, NoContext)
    /\ sharedUnchanged
    /\ UNCHANGED nonIsolateVars

\* GetAsyncContext(): return getCurrentContext()
IsolateContextRead(t) ==
    /\ threads[t].pc = "Context_read"
    /\ Proceeds(t, FALSE, IDLE, threads[t])
    /\ last' = AccessObs("GetAsyncContext", t, {}, OK,
                         getCurrentContext(threads[t].g_contextStack))
    /\ sharedUnchanged
    /\ UNCHANGED nonIsolateVars

\* IsEnabled(): return g_enabled
IsolateIsEnabled(t) ==
    /\ Enters(t, IDLE, threads[t])
    /\ last' = AccessObs("IsEnabled", t, {"g_enabled"}, OK, NoContext)
    /\ sharedUnchanged
    /\ UNCHANGED nonIsolateVars

\* GetStats() is called
IsolateGetStats(t) ==
    /\ Enters(t, "Stats_lock", threads[t])
    /\ last' = AccessObs("GetStats", t, {}, RUNNING, NoContext)
    /\ sharedUnchanged
    /\ UNCHANGED nonIsolateVars

\* GetStats(): the sizes of both stores and g_enabled, read under g_mutex
IsolateStatsRead(t) ==
    /\ threads[t].pc = "Stats_read"
    /\ Proceeds(t, FALSE, IDLE, threads[t])
    /\ last' = AccessObs("GetStats", t, SharedStatics, OK, NoContext)
    /\ sharedUnchanged
    /\ UNCHANGED nonIsolateVars

\* V8 creates a promise in isolate t and calls the hook the isolate has:
\* with a parent kInit first takes g_mutex, without one it captures the stack
IsolateInit(t) ==
    \E promiseId \in unitsOf(t), parentId \in unitsOf(t) \cup {NoParent} :
        /\ parentId # promiseId
        /\ threads[t].promiseHook
        /\ IF parentId # NoParent
           THEN Enters(t, "Init_lockParent",
                       [threads[t] EXCEPT !.unit = promiseId, !.parent = parentId])
           ELSE Enters(t, "Init_lockStore",
                       [threads[t] EXCEPT !.unit = promiseId,
                           !.origin = originOf(EmptyMap, NoParent, creatingStack(t))])
        /\ last' = AccessObs("kInit", t, {}, RUNNING, NoContext)
        /\ sharedUnchanged
        /\ UNCHANGED nonIsolateVars

\* kInit: g_promiseOrigins.find(parentId), then the stack if nothing is found
IsolateInitFind(t) ==
    /\ threads[t].pc = "Init_find"
    /\ Proceeds(t, FALSE, "Init_lockStore",
                [threads[t] EXCEPT !.origin =
                    originOf(g_promiseOrigins, threads[t].parent, creatingStack(t))])
    /\ last' = AccessObs("kInit", t, {"g_promiseOrigins"}, RUNNING, NoContext)
    /\ sharedUnchanged
    /\ UNCHANGED nonIsolateVars

\* kInit: emergencyCleanup() if the store is full; g_promiseOrigins[promiseId] = origin
IsolateInitStore(t) ==
    /\ threads[t].pc = "Init_store"
    /\ LET base == IF storeFull(g_promiseOrigins) THEN EmptyMap ELSE g_promiseOrigins IN
       /\ g_promiseOrigins' =
             [u \in DOMAIN base \cup {threads[t].unit} |->
                 IF u = threads[t].unit THEN threads[t].origin ELSE base[u]]
       /\ g_resolvedPromises' =
             IF storeFull(g_promiseOrigins) THEN {} ELSE g_resolvedPromises
    /\ Proceeds(t, FALSE, IDLE,
                [threads[t] EXCEPT !.unit = NoParent, !.parent = NoParent, !.origin = ""])
    /\ last' = AccessObs("kInit", t, {"g_promiseOrigins", "g_resolvedPromises"}, OK,
                         NoContext)
    /\ UNCHANGED <<g_enabled, nonIsolateVars>>

\* V8 starts the continuation of a promise of isolate t
IsolateBefore(t) ==
    \E promiseId \in unitsOf(t) :
        /\ threads[t].promiseHook
        /\ Len(threads[t].g_contextStack) <= MaxNesting
        /\ Enters(t, "Before_lock", [threads[t] EXCEPT !.unit = promiseId])
        /\ last' = AccessObs("kBefore", t, {}, RUNNING, NoContext)
        /\ sharedUnchanged
        /\ UNCHANGED nonIsolateVars

\* kBefore: g_promiseOrigins.find(promiseId), under g_mutex
IsolateBeforeFind(t) ==
    /\ threads[t].pc = "Before_find"
    /\ LET found == threads[t].unit \in DOMAIN g_promiseOrigins IN
       /\ IF found
          THEN Proceeds(t, TRUE, "Before_lockStack",
                        [threads[t] EXCEPT !.origin = g_promiseOrigins[threads[t].unit]])
          ELSE Proceeds(t, FALSE, IDLE, [threads[t] EXCEPT !.unit = NoParent])
       /\ last' = AccessObs("kBefore", t, {"g_promiseOrigins"},
                            IF found THEN RUNNING ELSE OK, NoContext)
    /\ sharedUnchanged
    /\ UNCHANGED nonIsolateVars

\* kBefore: pushContext(it->second), still under g_mutex
IsolateBeforePush(t) ==
    /\ threads[t].pc = "Before_push"
    /\ Proceeds(t, TRUE, IDLE,
                [threads[t] EXCEPT !.unit = NoParent, !.origin = "",
                    !.g_contextStack = pushContext(@, threads[t].origin)])
    /\ last' = AccessObs("kBefore", t, {}, OK, NoContext)
    /\ sharedUnchanged
    /\ UNCHANGED nonIsolateVars

\* V8 ends a continuation of isolate t
IsolateAfter(t) ==
    /\ threads[t].promiseHook
    /\ Enters(t, "After_lock", threads[t])
    /\ last' = AccessObs("kAfter", t, {}, RUNNING, NoContext)
    /\ sharedUnchanged
    /\ UNCHANGED nonIsolateVars

\* kAfter: popContext()
IsolateAfterPop(t) ==
    /\ threads[t].pc = "After_pop"
    /\ Proceeds(t, FALSE, IDLE,
                [threads[t] EXCEPT !.g_contextStack = popContext(@)])
    /\ last' = AccessObs("kAfter", t, {}, OK, NoContext)
    /\ sharedUnchanged
    /\ UNCHANGED nonIsolateVars

\* V8 settles a promise of isolate t
IsolateResolve(t) ==
    \E promiseId \in unitsOf(t) :
        /\ threads[t].promiseHook
        /\ Enters(t, "Resolve_lock", [threads[t] EXCEPT !.unit = promiseId])
        /\ last' = AccessObs("kResolve", t, {}, RUNNING, NoContext)
        /\ sharedUnchanged
        /\ UNCHANGED nonIsolateVars

\* kResolve: g_resolvedPromises.insert(promiseId); cleanupResolvedPromises()
\* at the threshold
IsolateResolveInsert(t) ==
    /\ threads[t].pc = "Resolve_insert"
    /\ LET resolved == g_resolvedPromises \cup {threads[t].unit} IN
       IF Cardinality(resolved) >= CLEANUP_THRESHOLD
       THEN /\ g_promiseOrigins' = cleanupResolvedPromises(g_promiseOrigins, resolved)
            /\ g_resolvedPromises' = {}
       ELSE /\ g_resolvedPromises' = resolved
            /\ UNCHANGED g_promiseOrigins
    /\ Proceeds(t, FALSE, IDLE, [threads[t] EXCEPT !.unit = NoParent])
    /\ last' = AccessObs("kResolve", t, {"g_promiseOrigins", "g_resolvedPromises"}, OK,
                         NoContext)
    /\ UNCHANGED <<g_enabled, nonIsolateVars>>

InitIsolates == InitWith({ChainDeps}, {TRUE}, {TRUE})

NextIsolates ==
    \E t \in Isolates :
        \/ Lock(t)
        \/ IsolateEnable(t) \/ IsolateEnableInstall(t)
        \/ IsolateDisable(t) \/ IsolateDisableClear(t) \/ IsolateDisableReset(t)
        \/ IsolateDisableWrite(t)
        \/ IsolateGetAsyncContext(t) \/ IsolateContextRead(t)
        \/ IsolateIsEnabled(t) \/ IsolateGetStats(t) \/ IsolateStatsRead(t)
        \/ IsolateInit(t) \/ IsolateInitFind(t) \/ IsolateInitStore(t)
        \/ IsolateBefore(t) \/ IsolateBeforeFind(t) \/ IsolateBeforePush(t)
        \/ IsolateAfter(t) \/ IsolateAfterPop(t)
        \/ IsolateResolve(t) \/ IsolateResolveInsert(t)

SpecIsolates == InitIsolates /\ [][NextIsolates]_vars

(***************************************************************************)
(* SpecPreload: native/preload/dotnope_preload.c, the library that         *)
(* LD_PRELOAD puts in front of libc.  One thread calls the constructor or  *)
(* a hooked function; 'frames' is its call stack inside the library, the   *)
(* innermost call last.  A call made inside the library by the name of a   *)
(* hooked function reaches the hooked function: the library is the first   *)
(* definition of the symbol.  MAX_ALLOWED_VARS (256) is never reached.     *)
(***************************************************************************)
BLOCKED == "blocked"

\* what DOTNOPE_LOG is set to: not at all, the empty text, the two names of
\* stderr, a file that can be opened for appending, one that cannot, and the
\* file the library refuses to open
LogSettings ==
    {<<>>, <<"">>, <<"1">>, <<STDERR>>, <<"/tmp/dotnope.log">>, <<"/missing/dotnope.log">>,
     <<"/proc/self/environ">>}

\* what DOTNOPE_POLICY is set to: not at all, "", "*", "A", "A,B", " A ,,B"
PolicySettings ==
    {<<>>, <<(<<>>)>>, <<(<<"*">>)>>, <<(<<"A">>)>>, <<(<<"A", ",", "B">>)>>,
     <<(<<" ", "A", " ", ",", ",", "B">>)>>}

\* the names a hooked getenv, setenv or unsetenv is called with
HookedNames == {"A", "B", "PATH", "DOTNOPE_POLICY"}

\* strtok(policy_copy, ","): the runs between commas, empty runs skipped
RECURSIVE strtok(_, _, _)
strtok(text, i, token) ==
    LET done == IF token = <<>> THEN <<>> ELSE <<token>> IN
    IF i > Len(text) THEN done
    ELSE IF text[i] = "," THEN done \o strtok(text, i + 1, <<>>)
    ELSE strtok(text, i + 1, Append(token, text[i]))

\* while (*token == ' ') token++
RECURSIVE trimLeft(_)
trimLeft(token) ==
    IF token # <<>> /\ token[1] = " " THEN trimLeft(Tail(token)) ELSE token

\* while (end > token && *end == ' ') *end-- = '\0'
RECURSIVE trimRight(_)
trimRight(token) ==
    IF Len(token) > 1 /\ token[Len(token)] = " "
    THEN trimRight(SubSeq(token, 1, Len(token) - 1)) ELSE token

RECURSIVE textOf(_)
textOf(token) == IF token = <<>> THEN "" ELSE token[1] \o textOf(Tail(token))

\* the parse loop of load_policy: the trimmed tokens that are not empty
RECURSIVE parseTokens(_)
parseTokens(tokens) ==
    IF tokens = <<>> THEN <<>>
    ELSE LET token == trimLeft(tokens[1]) IN
         (IF token = <<>> THEN <<>> ELSE <<textOf(trimRight(token))>>)
            \o parseTokens(Tail(tokens))

\* load_policy: no policy allows everything
parsePolicy(policy) ==
    IF policy = <<>> \/ policy[1] = <<>> THEN <<"*">>
    ELSE parseTokens(strtok(policy[1], 1, <<>>))

\* is_allowed: essential variables always, else "*" or the name in the list
isEssential(name) ==
    name \in {"PATH", "HOME", "USER", "SHELL", "TERM", "LANG", "LC_ALL",
              "DOTNOPE_LOG", "DOTNOPE_POLICY"}
is_allowed(allowed_vars, name) ==
    \/ isEssential(name)
    \/ \E i \in DOMAIN allowed_vars : allowed_vars[i] \in {"*", name}

\* is_protected_path: /proc/self/environ, /proc/<pid>/environ, and any path
\* with "/proc/" and "environ" in it
is_protected_path(path) == path = "/proc/self/environ"

\* real_fopen(path, "a"): the stream, <<>> when the file cannot be opened
real_fopen(path) == IF path = "/missing/dotnope.log" THEN <<>> ELSE <<path>>

LibraryCall(fn, pc, arg) == [fn |-> fn, pc |-> pc, arg |-> arg, result |-> <<>>]
top == frames[Len(frames)]
callers == SubSeq(frames, 1, Len(frames) - 1)
\* the innermost frame goes on at label pc
goesTo(pc) == [frames EXCEPT ![Len(frames)].pc = pc]
\* the innermost call returns result to the frame that made it
returns(result) ==
    IF Len(frames) = 1 THEN <<>>
    ELSE [callers EXCEPT ![Len(frames) - 1].result = result]

PreloadObs(fn, name, allowed, result) ==
    [Obs(fn, OK, NullToken, NullToken, name, NoCaller, "", allowed, FALSE)
        EXCEPT !.context = result]

nonPreloadVars ==
    <<engineVars, configVars, depVars, proxyVars, depGraph, nativeAvailable, isMainThread,
      manifest, isolateVars, parserVars, hookVars, env, handles, tokensIssued, trapCalls,
      workerAllowed, snapshot>>

\* the loader runs the constructor, or the program calls a hooked function:
\* each begins with pthread_once(&init_once, init_real_functions)
PreloadCall ==
    \E fn \in {"dotnope_preload_init", "getenv", "setenv", "unsetenv", "fopen"},
       arg \in HookedNames \cup {"/tmp/data", "/proc/self/environ"} :
        /\ frames = <<>>
        /\ CASE fn = "dotnope_preload_init" -> arg = "A" /\ init_once = PTHREAD_ONCE_INIT
             [] fn = "fopen" -> arg \notin HookedNames
             [] OTHER -> arg \in HookedNames
        /\ frames' = <<LibraryCall(fn, "pthread_once", arg)>>
        /\ UNCHANGED <<environ, init_once, policy_mutex, preload, last, nonPreloadVars>>

\* pthread_once: the first call runs init_real_functions, a call after its
\* return goes on.  A call made while the routine runs, by the thread that
\* runs it, is outside what pthread_once defines: the C library blocks the
\* caller for ever, or lets it pass, or runs the routine again.
PthreadOnce ==
    /\ frames # <<>> /\ top.pc = "pthread_once"
    /\ CASE init_once = PTHREAD_ONCE_INIT ->
              /\ init_once' = IN_PROGRESS
              /\ frames' = Append(goesTo("once_done"), LibraryCall("init_real_functions", "dlsym", ""))
         [] init_once = DONE ->
              /\ frames' = goesTo("body")
              /\ UNCHANGED init_once
         [] init_once = IN_PROGRESS ->
              /\ \/ frames' = goesTo(BLOCKED)
                 \/ frames' = goesTo("body")
                 \/ frames' = Append(goesTo("once_done"),
                                     LibraryCall("init_real_functions", "dlsym", ""))
              /\ UNCHANGED init_once
    /\ UNCHANGED <<environ, policy_mutex, preload, last, nonPreloadVars>>

\* init_real_functions: the dlsym calls, then load_policy()
InitRealFunctions ==
    /\ frames # <<>> /\ top.fn = "init_real_functions" /\ top.pc = "dlsym"
    /\ preload' = [preload EXCEPT !.real_functions = TRUE]
    /\ frames' = Append(goesTo("return"), LibraryCall("load_policy", "lock", ""))
    /\ UNCHANGED <<environ, init_once, policy_mutex, last, nonPreloadVars>>

\* load_policy: if (policy_loaded) return; pthread_mutex_lock(&policy_mutex).
\* The mutex is a default one: a thread that locks it twice blocks.
LoadPolicyLock ==
    /\ frames # <<>> /\ top.fn = "load_policy" /\ top.pc = "lock"
    /\ IF preload.policy_loaded
       THEN frames' = returns(<<>>) /\ UNCHANGED policy_mutex
       ELSE IF policy_mutex = Free
       THEN frames' = goesTo("log") /\ policy_mutex' = "thread"
       ELSE frames' = goesTo(BLOCKED) /\ UNCHANGED policy_mutex
    /\ UNCHANGED <<environ, init_once, preload, last, nonPreloadVars>>

\* load_policy: DOTNOPE_LOG; "1" and "stderr" log to stderr, any other text
\* is a file that fopen(log_env, "a") opens
LoadPolicyLog ==
    /\ frames # <<>> /\ top.fn = "load_policy" /\ top.pc = "log"
    /\ LET log_env == environ.DOTNOPE_LOG IN
       IF log_env = <<>> \/ log_env[1] = ""
       THEN frames' = goesTo("policy") /\ UNCHANGED preload
       ELSE IF log_env[1] \in {"1", STDERR}
       THEN /\ frames' = goesTo("policy")
            /\ preload' = [preload EXCEPT !.log_enabled = TRUE, !.log_file = <<STDERR>>]
       ELSE /\ frames' = Append(goesTo("opened"), LibraryCall("fopen", "pthread_once", log_env[1]))
            /\ preload' = [preload EXCEPT !.log_enabled = TRUE]
    /\ UNCHANGED <<environ, init_once, policy_mutex, last, nonPreloadVars>>

\* load_policy: log_file = fopen(...); if (!log_file) log_file = stderr
LoadPolicyOpened ==
    /\ frames # <<>> /\ top.fn = "load_policy" /\ top.pc = "opened"
    /\ preload' = [preload EXCEPT !.log_file =
                      IF top.result = <<>> THEN <<STDERR>> ELSE top.result]
    /\ frames' = goesTo("policy")
    /\ UNCHANGED <<environ, init_once, policy_mutex, last, nonPreloadVars>>

\* load_policy: DOTNOPE_POLICY is parsed, policy_loaded = 1, the mutex is
\* released
LoadPolicyParse ==
    /\ frames # <<>> /\ top.fn = "load_policy" /\ top.pc = "policy"
    /\ preload' = [preload EXCEPT !.allowed_vars = parsePolicy(environ.DOTNOPE_POLICY),
                                  !.policy_loaded = TRUE]
    /\ policy_mutex' = Free
    /\ frames' = returns(<<>>)
    /\ UNCHANGED <<environ, init_once, last, nonPreloadVars>>

\* init_real_functions returns and pthread_once marks init_once as done
InitReturns ==
    /\ frames # <<>> /\ top.fn = "init_real_functions" /\ top.pc = "return"
    /\ init_once' = DONE
    /\ frames' = [callers EXCEPT ![Len(frames) - 1].pc = "body"]
    /\ UNCHANGED <<environ, policy_mutex, preload, last, nonPreloadVars>>

\* the constructor returns to the loader
ConstructorReturns ==
    /\ frames # <<>> /\ top.fn = "dotnope_preload_init" /\ top.pc = "body"
    /\ frames' = returns(<<>>)
    /\ last' = PreloadObs("dotnope_preload_init", "", TRUE, NoContext)
    /\ UNCHANGED <<environ, init_once, policy_mutex, preload, nonPreloadVars>>

\* the hooked fopen: refuses the protected path, else real_fopen
HookedFopen ==
    /\ frames # <<>> /\ top.fn = "fopen" /\ top.pc = "body"
    /\ LET refused == ~preload.real_functions \/ is_protected_path(top.arg)
           stream == IF refused THEN <<>> ELSE real_fopen(top.arg)
       IN /\ frames' = returns(stream)
          /\ last' = PreloadObs("fopen", top.arg, ~refused,
                                IF stream = <<>> THEN NoContext ELSE stream[1])
    /\ UNCHANGED <<environ, init_once, policy_mutex, preload, nonPreloadVars>>

\* is_allowed as a hooked function calls it: load_policy() if no policy is
\* loaded, then the scan of allowed_vars under policy_mutex; TRUE when the
\* scan has to wait for the mutex
scanBlocks(name) == ~isEssential(name) /\ policy_mutex # Free

\* the hooked getenv: NULL for a variable that is not allowed
HookedGetenv ==
    /\ frames # <<>> /\ top.fn = "getenv" /\ top.pc = "body"
    /\ IF ~preload.policy_loaded
       THEN /\ frames' = Append(goesTo("body"), LibraryCall("load_policy", "lock", ""))
            /\ UNCHANGED last
       ELSE IF scanBlocks(top.arg)
       THEN frames' = goesTo(BLOCKED) /\ UNCHANGED last
       ELSE LET allowed == is_allowed(preload.allowed_vars, top.arg)
                value == IF allowed /\ environ[top.arg] # <<>>
                         THEN environ[top.arg][1] ELSE NoContext
            IN /\ frames' = returns(<<>>)
               /\ last' = PreloadObs("getenv", top.arg, allowed, value)
    /\ UNCHANGED <<environ, init_once, policy_mutex, preload, nonPreloadVars>>

\* the hooked setenv and unsetenv: EPERM for a variable that is not allowed
HookedSetenv ==
    /\ frames # <<>> /\ top.fn \in {"setenv", "unsetenv"} /\ top.pc = "body"
    /\ IF ~preload.policy_loaded
       THEN /\ frames' = Append(goesTo("body"), LibraryCall("load_policy", "lock", ""))
            /\ UNCHANGED <<environ, last>>
       ELSE IF scanBlocks(top.arg)
       THEN frames' = goesTo(BLOCKED) /\ UNCHANGED <<environ, last>>
       ELSE LET allowed == is_allowed(preload.allowed_vars, top.arg)
                value == IF top.fn = "setenv"
                         THEN <<IF top.arg = "DOTNOPE_POLICY" THEN <<"B">> ELSE "v">>
                         ELSE <<>>
            IN /\ frames' = returns(<<>>)
               /\ environ' = IF allowed THEN [environ EXCEPT ![top.arg] = value]
                             ELSE environ
               /\ last' = [PreloadObs(top.fn, top.arg, allowed, NoContext)
                              EXCEPT !.code = IF allowed THEN OK ELSE "EPERM"]
    /\ UNCHANGED <<init_once, policy_mutex, preload, nonPreloadVars>>

InitPreload ==
    /\ InitProcess({ChainDeps}, {TRUE}, {TRUE}, {EmptyMap},
                   {[NoEnviron EXCEPT !.DOTNOPE_LOG = l, !.DOTNOPE_POLICY = p] :
                       l \in LogSettings, p \in PolicySettings})

NextPreload ==
    \/ PreloadCall \/ PthreadOnce \/ InitRealFunctions
    \/ LoadPolicyLock \/ LoadPolicyLog \/ LoadPolicyOpened \/ LoadPolicyParse
    \/ InitReturns \/ ConstructorReturns
    \/ HookedFopen \/ HookedGetenv \/ HookedSetenv

SpecPreload == InitPreload /\ [][NextPreload]_vars

(***************************************************************************)
(* SpecParser: the functions lib/stack-parser.js exports and the identity  *)
(* extraction of native/src/stack_trace.cc, called on the source paths of  *)
(* an installation: application and package files, nested and scoped       *)
(* packages, links, forged, missing, broken, nameless and missing          *)
(* manifests, paths with ".." and a directory named old_node_modules.      *)
(***************************************************************************)
ParserPaths ==
    {AppFile, PkgFile("P"), NestedPkgFile("Q", "P"), ScopedFile, LinkFile("P"),
     ForgedFile("P"), GoneFile("P"), BrokenFile("P"), NamelessFile("P"), OrphanFile("P"),
     DotDotFile("Q", "P"), OldModulesFile("P")}

\* the identities a caller of validatePackageIdentity claims for a path
ParserNames == {MAIN, "P", "evil"}

ParserObs(call, filePath, packageName, verdict) ==
    [Obs(call, OK, NullToken, NullToken, "", NoCaller, packageName, verdict, FALSE)
        EXCEPT !.file = filePath]

nonParserVars == <<engineVars, configVars, depVars, proxyVars, worldVars, hookVars, env,
                   handles, tokensIssued, workerAllowed, snapshot>>

InitParser == InitWith({ChainDeps}, {TRUE}, {TRUE})

\* stackParser.extractPackageName(filePath)
ParserExtract ==
    \E filePath \in ParserPaths :
        LET packageName == extractPackageNameCached(packageCache, filePath) IN
        /\ trapCalls < MaxAccesses
        /\ trapCalls' = trapCalls + 1
        /\ packageCache' = packageCache \cup {<<filePath, packageName>>}
        /\ last' = ParserObs("extractPackageName", filePath, packageName, TRUE)
        /\ UNCHANGED <<validationCache, nonParserVars>>

\* ExtractPackageName(scriptName), as Capture and GetCallerInfo call it
NativeExtract ==
    \E filePath \in ParserPaths :
        /\ last' = ParserObs("ExtractPackageName", filePath, ExtractPackageName(filePath),
                             TRUE)
        /\ UNCHANGED <<parserVars, trapCalls, nonParserVars>>

\* stackParser.validatePackageIdentity(filePath, packageName)
ParserValidate ==
    \E filePath \in ParserPaths, packageName \in ParserNames :
        LET valid == validatePackageIdentityCached(validationCache, filePath, packageName)
        IN /\ trapCalls < MaxAccesses
           /\ trapCalls' = trapCalls + 1
           /\ validationCache' =
                 IF packageName = MAIN THEN validationCache
                 ELSE validationCache \cup {<<filePath, packageName, valid>>}
           /\ last' = ParserObs("validatePackageIdentity", filePath, packageName, valid)
           /\ UNCHANGED <<packageCache, nonParserVars>>

\* stackParser.clearCache()
ParserClear ==
    /\ packageCache' = {}
    /\ validationCache' = {}
    /\ trapCalls' = 0
    /\ last' = ParserObs("clearCache", NoFile, "", TRUE)
    /\ UNCHANGED nonParserVars

NextParser == ParserExtract \/ NativeExtract \/ ParserValidate \/ ParserClear

SpecParser == InitParser /\ [][NextParser]_vars

(***************************************************************************)
(* SpecResolve: getCallingPackage called from the application, from        *)
(* packages, from eval code and from inside continuations, with and        *)
(* without the native addon, while a promise is created and its            *)
(* continuations run.                                                      *)
(***************************************************************************)
ResolveStacks ==
    {<<>>, <<PlainFrame(DotnopeProxyFile)>>, <<EvalCodeFrame>>,
     <<PlainFrame(AppFile)>>, <<PlainFrame(PkgFile("P"))>>,
     <<EvalCodeFrame, PlainFrame(PkgFile("P"))>>,
     <<PlainFrame(PkgFile("Q")), EvalNamedFrame(AppFile)>>,
     <<PlainFrame(LinkFile("P"))>>}

\* the identity the store held for the innermost running continuation when
\* it started under the installed hook, "" if there is none
heldIdentity ==
    IF /\ nativeAvailable
       /\ g_enabled
       /\ running # <<>>
       /\ running[Len(running)].hooked
       /\ running[Len(running)].identity # <<>>
    THEN running[Len(running)].identity[1]
    ELSE ""

ResolveObs(stack, asyncContext, held, info) ==
    [Obs("getCallingPackage", OK, NullToken, NullToken, "", info, held, TRUE, FALSE)
        EXCEPT !.stack = stack, !.context = asyncContext]

InitResolve == InitWith({ChainDeps}, BOOLEAN, {TRUE})

\* bridge.enablePromiseHooks(): false without the addon
ResolveHooksOn == nativeAvailable /\ HooksOn

\* stackParser.getCallingPackage(); bridge.getAsyncContext() is null
\* without the addon
ResolveCaller ==
    \E stack \in ResolveStacks :
        LET asyncContext == IF nativeAvailable THEN GetAsyncContext ELSE NoContext
            info == getCallingPackage(nativeAvailable, stack, asyncContext, 0)
        IN /\ getCallingPackageCaches(stack, asyncContext)
           /\ last' = ResolveObs(stack, asyncContext, heldIdentity, info)
           /\ UNCHANGED <<nonParserVars, trapCalls>>

\* the events of the first promise
ResolveCreate == ContextsCreate /\ last'.unit = 1
ResolveStarts == ContinuationStarts /\ running'[Len(running')].unit = 1

NextResolve ==
    \/ ResolveHooksOn \/ HooksOff \/ ResolveCreate
    \/ ResolveStarts \/ ContinuationEnds \/ ResolveCaller

SpecResolve == InitResolve /\ [][NextResolve]_vars

(***************************************************************************)
(* SpecClosure: the exported getDependenciesWithLimit called on installed  *)
(* packages, for every depth limit up to MaxDepth and every exclusion set, *)
(* over dependency graphs that differ in shape and in the order in which a *)
(* manifest lists the same dependencies.                                   *)
(***************************************************************************)
ClosurePkgs == Pkgs \cup {"S"}
ClosureGraphs ==
    {ChainDeps @@ ("S" :> <<>>),
     ("P" :> <<"Q", "R">>) @@ ("Q" :> <<"R">>) @@ ("R" :> <<"S">>) @@ ("S" :> <<>>),
     ("P" :> <<"R", "Q">>) @@ ("Q" :> <<"R">>) @@ ("R" :> <<"S">>) @@ ("S" :> <<>>),
     ("P" :> <<"Q", "R">>) @@ ("Q" :> <<"P", "S">>) @@ ("R" :> <<"S">>) @@ ("S" :> <<"P">>),
     ("P" :> <<"R", "Q">>) @@ ("Q" :> <<"S", "P">>) @@ ("R" :> <<"S">>) @@ ("S" :> <<"P">>)}

InitClosure == InitWith(ClosureGraphs, {FALSE}, {TRUE})

ClosureObs(packageName, depthLimit, excludePackages, result) ==
    [Obs("getDependenciesWithLimit", OK, NullToken, NullToken, "", NoCaller, packageName,
         TRUE, FALSE)
        EXCEPT !.keys = result, !.depthLimit = depthLimit,
               !.excludePackages = excludePackages]

\* getDependenciesWithLimit(packageName, depthLimit, excludePackages)
ResolveDependencies ==
    \E packageName \in ClosurePkgs, depthLimit \in 0..MaxDepth,
       excludePackages \in SUBSET {"Q", "R"} :
        /\ last' = ClosureObs(packageName, depthLimit, excludePackages,
                      getDependenciesWithLimit(depGraph, packageName, depthLimit,
                                               excludePackages, 0, {}))
        /\ UNCHANGED <<nonHookVars, hookVars>>

NextClosure == ResolveDependencies

SpecClosure == InitClosure /\ [][NextClosure]_vars

\* the identities one declared-dependency hop away from a set of
\* identities, the excluded ones left out
HopFrom(g, from, excluded) ==
    {d \in DOMAIN g : \E n \in from : \E i \in 1..Len(getPackageDependencies(g, n)) :
                         getPackageDependencies(g, n)[i] = d} \ excluded

\* the identities exactly 'hops' hops away along paths without excluded ones
RECURSIVE HopsAway(_, _, _, _)
HopsAway(g, packageName, hops, excluded) ==
    IF hops = 0 THEN {packageName}
    ELSE HopFrom(g, HopsAway(g, packageName, hops - 1, excluded), excluded)

ReachableWithin(g, packageName, depthLimit, excluded) ==
    UNION {HopsAway(g, packageName, hops, excluded) : hops \in 1..depthLimit}

\* C25: the closure of a package for depth limit d and exclusion set E is
\* the set of identities reachable from it by between 1 and d dependency
\* hops along paths without an identity of E, whatever the order in which
\* the manifests list the dependencies; for d = 0 it is empty and for d = 1
\* it is the set of the non-excluded direct dependencies.
C25_ClosureIsBoundedReachability ==
    last.call = "getDependenciesWithLimit" =>
        last.keys = ReachableWithin(depGraph, last.claimed, last.depthLimit,
                                    last.excludePackages)

(***************************************************************************)
(* lib/config-loader.js: loadConfig and reloadConfig, as the module        *)
(* exports them                                                            *)
(***************************************************************************)
\* loadConfig(customPath), called as such or by reloadConfig: src is what
\* the manifest that is read declares; only the state of the loader changes
loadConfig(src, calledAs) ==
    /\ configPath' = MANIFEST_PATH
    /\ IF src = Unloadable
       THEN /\ last' = Obs(calledAs, ERR_CONFIG, NullToken, NullToken, "", NoCaller,
                           "", TRUE, FALSE)
            /\ UNCHANGED <<cachedConfig, cachedOptions>>
       ELSE /\ cachedConfig' = [loaded |-> TRUE, entries |-> normalizeConfig(src).config]
            /\ cachedOptions' = [loaded |-> TRUE, value |-> normalizeConfig(src).options]
            /\ last' = Obs(calledAs, OK, NullToken, NullToken, "", NoCaller, "",
                           TRUE, FALSE)
    /\ UNCHANGED <<engineVars, depVars, parserVars, proxyVars, worldVars, hookVars, env,
                   handles, tokensIssued, trapCalls, workerAllowed, snapshot>>

\* reloadConfig(): clearCache() sets configPath to null, so that
\* loadConfig(configPath) reads the manifest found from the working directory
reloadConfig == loadConfig(manifest, "reloadConfig")

(***************************************************************************)
(* SpecReload: sessions over a manifest that is edited on disk, with the   *)
(* loader's loadConfig and reloadConfig called at any moment and reads by  *)
(* the packages in between.                                                *)
(***************************************************************************)
ReloadSources ==
    {("P" :> RawString("K")),
     ("Q" :> RawArray({"K", "L"})),
     ("P" :> RawObject(Some({"K"}), None, None, TRUE, None, None))}

InitReload == InitFull({ChainDeps}, {FALSE}, {TRUE}, ReloadSources)

ReloadEnable ==
    /\ ~isInitialized
    /\ enableStrictEnv(manifest, FALSE, FALSE, NoWorkerConfig)
ReloadDisable == \E h \in handles : handleDisable(h, h)
ReloadGet ==
    /\ isInitialized
    /\ \E key \in Keys, stack \in PolicyStacks : envGet(key, stack, NoContext)
\* the manifest of the application is rewritten
EditManifest ==
    /\ manifest' \in ReloadSources \ {manifest}
    /\ UNCHANGED <<engineVars, configVars, depVars, parserVars, proxyVars, depGraph,
                   nativeAvailable, isMainThread, isolateVars, preloadVars, hookVars, env,
                   handles, tokensIssued, trapCalls, workerAllowed, snapshot, last>>
LoadOther == \E src \in ReloadSources \cup {Unloadable} : loadConfig(src, "loadConfig")
Reload == reloadConfig

NextReload ==
    ReloadEnable \/ ReloadDisable \/ ReloadGet \/ EditManifest \/ LoadOther \/ Reload

SpecReload == InitReload /\ [][NextReload]_vars

(***************************************************************************)
(* Identities of source paths                                              *)
(***************************************************************************)
\* C31: validatePackageIdentity returns true for the claimed identity
\* __main__; for any other claimed identity it returns true only if the
\* symlink-resolved path exists, the identity recomputed from it equals the
\* claimed one and the nearest manifest above it declares that name; a
\* filesystem error or a manifest that does not parse gives false
C31_ValidRequiresDeclaredName ==
    last.call = "validatePackageIdentity" =>
        LET realPath == realpathSync(last.file) IN
        /\ last.claimed = MAIN => last.valid
        /\ (last.claimed # MAIN /\ last.valid) =>
              /\ realPath # <<>>
              /\ extractPackageNameFromPath(realPath[1]) = last.claimed
              /\ nearestManifestName(realPath[1]) = <<last.claimed>>
        /\ (last.claimed # MAIN /\ realPath = <<>>) => ~last.valid
        /\ (last.claimed # MAIN /\ realPath # <<>>
              /\ nearestManifestName(realPath[1]) = <<UNPARSABLE>>) => ~last.valid

\* C32: on the JavaScript resolution path, if any frame of the captured
\* stack is eval-like, the returned caller information has isEval = true,
\* also when the frame that supplies the identity is not eval-like
C32_EvalAnywhereMarksCaller ==
    (/\ last.call = "getCallingPackage"
     /\ last.caller.found
     /\ last.caller.via = "js"
     /\ \E i \in 1..Len(last.stack) : detectEvalContext(last.stack[i]))
    => last.caller.isEval

\* a package frame below an eval frame: the identity is the package's, the
\* mark comes from the eval frame
C32_Witness ==
    /\ last.call = "getCallingPackage"
    /\ last.stack = <<EvalCodeFrame, PlainFrame(PkgFile("P"))>>
    /\ last.caller.via = "js"
    /\ last.caller.packageName = "P"
    /\ last.caller.isEval

\* C33: caller resolution returns Unknown only when no stack walk finds a
\* qualifying frame and the propagator yields no identity; whenever the
\* propagator holds an identity for the running continuation, a failed
\* stack walk resolves to that identity
C33_UnknownOnlyWithoutFrameOrContext ==
    last.call = "getCallingPackage" =>
        /\ ~last.caller.found =>
              /\ firstQualifying(last.stack, 0) = 0
              /\ last.context = NoContext
              /\ last.claimed = ""
        /\ (firstQualifying(last.stack, 0) = 0 /\ last.claimed # "") =>
              /\ last.caller.found
              /\ last.caller.packageName = last.claimed

\* C33, amended: Unknown is returned only when the native walk is missing
\* or finds no frame, currentContext() is absent or __main__, and the
\* JavaScript walk finds no frame or rejects the identity of its frame; when
\* the native walk finds no frame and currentContext() is a package, that
\* package is the result
C33_UnknownOnlyAfterEveryFallback ==
    last.call = "getCallingPackage" =>
        /\ ~last.caller.found =>
              /\ ~nativeAvailable \/ firstQualifying(last.stack, 0) = 0
              /\ last.context \in {NoContext, MAIN}
              /\ firstQualifying(last.stack, 0) = 0 \/ ~claimValid(last.stack)
        /\ (/\ nativeAvailable
            /\ firstQualifying(last.stack, 0) = 0
            /\ last.context \notin {NoContext, MAIN}) =>
              /\ last.caller.found
              /\ last.caller.packageName = last.context
              /\ last.caller.via = "async"

\* eval code without a script name, run inside a continuation of package P
C33_Witness ==
    /\ last.call = "getCallingPackage"
    /\ last.stack = <<EvalCodeFrame>>
    /\ last.context = "P"
    /\ last.claimed = "P"
    /\ last.caller.via = "async"
    /\ last.caller.packageName = "P"

\* the name after the innermost node_modules segment of a normalized path
NameAfterInnermost(path) ==
    LET idx == {i \in 1..(Len(path) - 1) : path[i] = NODE_MODULES}
        innermostIdx == CHOOSE i \in idx : \A j \in idx : j <= i
    IN IF idx = {} THEN MAIN
       ELSE IF IsScoped(path[innermostIdx + 1])
            THEN path[innermostIdx + 1] \o "/" \o path[innermostIdx + 2]
            ELSE path[innermostIdx + 1]

\* C37: extractPackageName returns the name that follows the innermost
\* node_modules segment of the (normalized) path, two segments for a scoped
\* name, and __main__ for a path without such a segment; every cached
\* result equals the recomputed one
C37_IdentityFromInnermostSegment ==
    /\ last.call = "extractPackageName" =>
          last.claimed = NameAfterInnermost(normalize(last.file))
    /\ \A e \in packageCache : e[2] = NameAfterInnermost(normalize(e[1]))

\* a nested package's path is answered from the cache
C37_Witness ==
    /\ last.call = "extractPackageName"
    /\ last.file = NestedPkgFile("Q", "P")
    /\ last.claimed = "P"
    /\ packageCache = {<<NestedPkgFile("Q", "P"), "P">>}
    /\ validationCache = {}
    /\ trapCalls = 2

\* C38: for every source path the native identity extraction returns what
\* the JavaScript identity extraction returns
C38_NativeAndScriptExtractionAgree ==
    last.call = "ExtractPackageName" =>
        last.claimed = extractPackageNameFromPath(last.file)

(***************************************************************************)
(* Isolates                                                                *)
(***************************************************************************)
holds(t, mutex) == \E i \in DOMAIN threads[t].acquired : threads[t].acquired[i] = mutex
waiting(t) == threads[t].pc \in DOMAIN lockAt
awaited(t) == lockAt[threads[t].pc].mutex
owner(mutex) == IF mutex = G_MUTEX THEN g_mutex ELSE g_contextStackMutex

\* C34: every read and every write of a static the isolates share is made
\* by a thread that holds g_mutex at that moment.
C34_SharedStateAccessedUnderMutex ==
    \A variable \in last.keys :
        variable \in SharedStatics => \E i \in DOMAIN last.held : last.held[i] = G_MUTEX

\* what isolate t observes of the tracking: IsEnabled(), the origins stored
\* for its promises, and the value of GetAsyncContext()
enabledIn(t) == g_enabled
trackedIn(t) ==
    [u \in unitsOf(t) \cap DOMAIN g_promiseOrigins |-> g_promiseOrigins[u]]
contextIn(t) ==
    IF g_enabled THEN getCurrentContext(threads[t].g_contextStack) ELSE NoContext

\* C35: an Enable() that returns true leaves the hook installed in the
\* calling isolate, and no step of Enable() or DisableInternal() in one
\* isolate changes what another isolate observes of the tracking.
C35_IsolatesAreSeparateSessions ==
    /\ []((last.call = "Enable" /\ last.code = OK) => threads[last.claimed].promiseHook)
    /\ [][last'.call \in {"Enable", "DisableInternal"} =>
             \A t \in Isolates \ {last'.claimed} :
                 /\ enabledIn(t)' = enabledIn(t)
                 /\ trackedIn(t)' = trackedIn(t)
                 /\ contextIn(t)' = contextIn(t)]_vars

\* a set of threads each of which waits for a mutex that a thread of the
\* set holds
Deadlocked(S) == S # {} /\ \A t \in S : waiting(t) /\ owner(awaited(t)) \in S

\* C36: no set of threads is deadlocked; a thread that holds both mutexes
\* took g_mutex first; a thread that waits for g_mutex holds nothing; and no
\* thread waits for a mutex it holds.
C36_LocksOrderedNoDeadlock ==
    /\ \A S \in SUBSET Isolates : ~Deadlocked(S)
    /\ \A t \in Isolates :
          /\ threads[t].acquired \in
                {<<>>, <<G_MUTEX>>, <<G_CONTEXT_STACK_MUTEX>>,
                 <<G_MUTEX, G_CONTEXT_STACK_MUTEX>>}
          /\ holds(t, G_MUTEX) <=> g_mutex = t
          /\ holds(t, G_CONTEXT_STACK_MUTEX) <=> g_contextStackMutex = t
          /\ waiting(t) =>
                /\ ~holds(t, awaited(t))
                /\ awaited(t) = G_MUTEX => threads[t].acquired = <<>>

\* kBefore holds both mutexes in one isolate while the other isolate waits
\* for g_mutex
C36_Witness ==
    \E t \in Isolates, u \in Isolates :
        /\ t # u
        /\ threads[t].acquired = <<G_MUTEX, G_CONTEXT_STACK_MUTEX>>
        /\ threads[t].pc = "Before_push"
        /\ waiting(u) /\ awaited(u) = G_MUTEX

(***************************************************************************)
(* The preload library                                                     *)
(***************************************************************************)
\* C39: for every DOTNOPE_LOG and DOTNOPE_POLICY the initialisation goes
\* through: no call of the library blocks for ever, pthread_once on
\* init_once is never called while init_real_functions runs, and
\* load_policy never locks policy_mutex while the thread holds it.
C39_InitialisationCompletes ==
    /\ \A i \in DOMAIN frames : frames[i].pc # BLOCKED
    /\ frames # <<>> =>
          /\ ~(top.pc = "pthread_once" /\ init_once = IN_PROGRESS)
          /\ ~(top.fn = "load_policy" /\ top.pc = "lock" /\ ~preload.policy_loaded
                /\ policy_mutex # Free)

(***************************************************************************)
(* Caches                                                                  *)
(***************************************************************************)
\* C29: after a successful disable every cache is empty: the package names
\* by path, the validation verdicts, the allowed sets per key, and the
\* loaded policy and options.
C29_DisableEmptiesEveryCache ==
    (last.call = "disable" /\ last.code = OK) =>
        /\ packageCache = {}
        /\ validationCache = {}
        /\ envVarAllowedCache = EmptyMap
        /\ cachedConfig = NullConfig
        /\ cachedOptions = NullOptions

\* C30: the memoized allowed set of a key is the set computed afresh from
\* the policy that is loaded now, whatever loadConfig, reloadConfig and new
\* sessions have changed since it was memoized.
C30_MemoizedSetsFollowPolicy ==
    \A k \in DOMAIN envVarAllowedCache :
        envVarAllowedCache[k] = computeAllowedPackages(depGraph, k, cachedConfig.entries)

(***************************************************************************)
(* The async context propagator                                            *)
(***************************************************************************)
\* C24: in every reachable state, whatever before/after events, enables and
\* disables have happened, the identity stack is non-empty, its bottom
\* element is __main__, and the current context is its top element (which
\* is also what GetAsyncContext hands out while the hooks are installed).
C24_ContextStackNeverEmpty ==
    /\ Len(g_contextStack) >= 1
    /\ g_contextStack[1] = MAIN
    /\ getCurrentContext(g_contextStack) = g_contextStack[Len(g_contextStack)]
    /\ g_enabled => GetAsyncContext = g_contextStack[Len(g_contextStack)]

\* a continuation of an unknown unit has returned to an enclosing one whose
\* context was the only element above __main__
C24_Witness ==
    /\ g_enabled
    /\ Len(running) = 1
    /\ running[1].hooked
    /\ running[1].identity # <<>>
    /\ g_contextStack = <<MAIN>>

innermost == running[Len(running)]

\* the innermost continuation returns
ContinuationReturns ==
    /\ running # <<>>
    /\ running' = SubSeq(running, 1, Len(running) - 1)

\* C26: while the continuation of a unit with a stored identity runs, the
\* current context is that identity, and when a continuation returns the
\* stack is what it was just before the continuation started, however the
\* continuations are nested (continuations during which the hooks were
\* taken out are left aside).
C26_ContinuationsRestoreContext ==
    /\ []((running # <<>> /\ innermost.hooked /\ innermost.identity # <<>>)
             => getCurrentContext(g_contextStack) = innermost.identity[1])
    /\ [][(ContinuationReturns /\ innermost.hooked)
             => g_contextStack' = innermost.saved]_vars

\* the identity kInit finds on the creating stack
capturedOrMain(captured) == IF captured = "" THEN MAIN ELSE captured

\* a step in which kInit stores the unit promiseId, created from stack
CreatedStep(promiseId, parentId, stack) ==
    /\ last' = HookObs("kInit", promiseId, parentId, captureOrigin(stack))
    /\ g_enabled
    /\ promiseId # parentId
    /\ kInit(promiseId, parentId, stack)

\* C27 as stated: a unit created with a parent is stored with the identity
\* of the parent, and only a unit without parent takes the identity of the
\* creating stack, __main__ if the stack gives none.
C27_ChildTakesParentIdentity ==
    [][\A promiseId \in UnitIds, parentId \in UnitIds \cup {NoParent}, stack \in HookStacks :
          CreatedStep(promiseId, parentId, stack) =>
             IF parentId # NoParent
             THEN /\ parentId \in DOMAIN g_promiseOrigins
                  /\ g_promiseOrigins'[promiseId] = g_promiseOrigins[parentId]
             ELSE g_promiseOrigins'[promiseId] = capturedOrMain(captureOrigin(stack))]_vars

\* C27, amended: a unit created with a parent that the store holds is stored
\* with the identity of the parent; a unit without parent, or with a parent
\* the store does not hold, takes the identity of the creating stack,
\* __main__ if the stack gives none.
C27_ChildTakesStoredParentIdentity ==
    [][\A promiseId \in UnitIds, parentId \in UnitIds \cup {NoParent}, stack \in HookStacks :
          CreatedStep(promiseId, parentId, stack) =>
             IF parentId # NoParent /\ parentId \in DOMAIN g_promiseOrigins
             THEN g_promiseOrigins'[promiseId] = g_promiseOrigins[parentId]
             ELSE g_promiseOrigins'[promiseId] = capturedOrMain(captureOrigin(stack))]_vars

\* a unit created on the stack of one identity carries the other identity
\* of its parent
C27_Witness ==
    /\ last.call = "kInit"
    /\ last.parent \in DOMAIN g_promiseOrigins
    /\ last.unit \in DOMAIN g_promiseOrigins
    /\ g_promiseOrigins[last.unit] = g_promiseOrigins[last.parent]
    /\ g_promiseOrigins[last.unit] # capturedOrMain(last.claimed)

\* a step in which kResolve marks the unit promiseId as settled
SettledStep(promiseId) ==
    /\ last' = HookObs("kResolve", promiseId, NoParent, "")
    /\ g_enabled
    /\ kResolve(promiseId)

\* C28: the store never holds more than MAX_TRACKED_PROMISES entries (a
\* creation that finds it full clears it before inserting), the settled set
\* never reaches CLEANUP_THRESHOLD entries without being emptied, and the
\* settlement that makes it reach the threshold evicts every settled unit.
C28_StoresStayBounded ==
    /\ [](/\ Cardinality(DOMAIN g_promiseOrigins) <= MAX_TRACKED_PROMISES
          /\ Cardinality(g_resolvedPromises) < CLEANUP_THRESHOLD)
    /\ [][\A promiseId \in UnitIds, parentId \in UnitIds \cup {NoParent}, stack \in HookStacks :
            (/\ CreatedStep(promiseId, parentId, stack)
             /\ Cardinality(DOMAIN g_promiseOrigins) = MAX_TRACKED_PROMISES)
                => /\ DOMAIN g_promiseOrigins' = {promiseId}
                   /\ g_resolvedPromises' = {}]_vars
    /\ [][\A promiseId \in UnitIds :
            (/\ SettledStep(promiseId)
             /\ Cardinality(g_resolvedPromises \cup {promiseId}) = CLEANUP_THRESHOLD)
                => /\ g_resolvedPromises' = {}
                   /\ DOMAIN g_promiseOrigins' =
                         DOMAIN g_promiseOrigins \ (g_resolvedPromises \cup {promiseId})]_vars

\* the creation of a child has cleared a full store, its parent included
C28_Witness ==
    /\ last.call = "kInit"
    /\ last.parent # NoParent
    /\ DOMAIN g_promiseOrigins = {last.unit}
    /\ g_promiseOrigins[last.unit] # capturedOrMain(last.claimed)
    /\ g_resolvedPromises = {}

(***************************************************************************)
(* lib/config-loader.js: getSerializableConfig                             *)
(***************************************************************************)
\* return { config: cachedConfig, options: cachedOptions }; the result is
\* kept as the value a later enableStrictEnv is given as workerConfig
getSerializableConfig ==
    /\ snapshot' = [config |-> cachedConfig, options |-> cachedOptions]
    /\ last' = Obs("getSerializableConfig", OK, NullToken, NullToken, "", NoCaller, "",
                   TRUE, FALSE)
    /\ UNCHANGED <<engineVars, configVars, depVars, proxyVars, worldVars, parserVars, hookVars, env,
                   handles, tokensIssued, trapCalls, workerAllowed>>

(***************************************************************************)
(* SpecWorker: a worker thread.  Sessions are enabled with and without the *)
(* opt-in, from the manifest or from the snapshot taken of an earlier      *)
(* session, and accessed.                                                  *)
(***************************************************************************)
InitWorker == InitWith({ChainDeps}, {FALSE}, {FALSE})

WorkerEnable ==
    \E src \in SessionSources \cup {Unloadable}, tooManyModules \in BOOLEAN, allowInWorker \in BOOLEAN,
       workerConfig \in {NoWorkerConfig, WorkerConfig(snapshot)} :
        enableStrictEnv(src, tooManyModules, allowInWorker, workerConfig)
WorkerSnapshot == getSerializableConfig
WorkerDisable == \E h \in handles : handleDisable(h, h)
WorkerGet == \E key \in Keys, stack \in SessionStacks : envGet(key, stack, NoContext)
WorkerSet == \E key \in Keys, stack \in SessionStacks : envSet(key, stack, NoContext)

NextWorker == WorkerEnable \/ WorkerSnapshot \/ WorkerDisable \/ WorkerGet \/ WorkerSet

SpecWorker == InitWorker /\ [][NextWorker]_vars

(***************************************************************************)
(* Properties                                                              *)
(***************************************************************************)
TrapCalls ==
    {"get", "set", "delete", "has", "getOwnPropertyDescriptor", "defineProperty"}
sessionVars == <<engineVars, configVars, depVars, proxyVars>>

\* C1: while a session is active, disable() called on the session's handle
\* with a value that is not the session's token (another token, null,
\* undefined, the empty string) throws, and the session state -- enabled
\* flag, token, handle, interception, policy, options, caches, counters and
\* the environment -- is unchanged.
C1_WrongTokenChangesNothing ==
    [][(/\ isInitialized
        /\ last'.call = "disable"
        /\ last'.handle = globalHandle
        /\ last'.provided # disableToken)
       => (/\ last'.code = ERR_INVALID_TOKEN
           /\ UNCHANGED <<sessionVars, env>>)]_vars

\* a wrong token was refused by a session that has counted an access
C1_Witness ==
    /\ isInitialized
    /\ last.call = "disable"
    /\ last.code = ERR_INVALID_TOKEN
    /\ last.handle = globalHandle
    /\ last.provided \in {NullToken, EmptyString, Undefined}
    /\ accessCounts # EmptyMap

\* C2: a handle whose session has been disabled is unusable: calling its
\* disable() with its own (old) token while a later session is active leaves
\* that session unchanged.
C2_StaleHandleIsInert ==
    [][(/\ isInitialized
        /\ last'.call = "disable"
        /\ last'.handle # globalHandle
        /\ last'.provided = last'.handle)
       => UNCHANGED sessionVars]_vars

\* the policy of the session, the caller and key of the last call
Policy == cachedConfig.entries
Who == last.caller.packageName

\* P's own read grant covers key k
GrantsRead(P, k) ==
    P \in DOMAIN Policy /\ (k \in Policy[P].allowed \/ WILDCARD \in Policy[P].allowed)

\* the dependency closure of P under its depth limit and exclusion list
Closure(P) ==
    getDependenciesWithLimit(depGraph, P, Policy[P].peerDepthLimit,
                             Policy[P].excludePeerDependencies, 0, {})

\* some other identity that propagates to its dependencies grants k and
\* has I in its closure
PeerGranted(I, k) ==
    \E P \in DOMAIN Policy \ {I} :
        Policy[P].allowPeerDependencies /\ GrantsRead(P, k) /\ I \in Closure(P)

DirectDeps(P) ==
    {getPackageDependencies(depGraph, P)[i] :
        i \in 1..Len(getPackageDependencies(depGraph, P))}

\* the last call was a decided access by an identified caller
Identified == last.call \in TrapCalls /\ last.decided /\ last.caller.found
IdentifiedRead ==
    Identified /\ last.call = "get" /\ ~last.caller.isEval /\ Who # MAIN

\* C3: a read of key k by an identified, non-eval caller I other than
\* __main__ is allowed exactly when I's own allowed set contains k or "*",
\* or some other policy identity with allowPeerDependencies whose allowed
\* set contains k or "*" has I in its dependency closure; otherwise it is
\* refused as unauthorized.
C3_ReadAllowedIffGranted ==
    IdentifiedRead =>
        last.code = IF GrantsRead(Who, last.key) \/ PeerGranted(Who, last.key)
                    THEN OK ELSE ERR_UNAUTHORIZED

\* a read allowed through a closure of depth two, by a package that is not
\* a direct dependency of the granting identity
C3_Witness ==
    /\ IdentifiedRead
    /\ last.code = OK
    /\ ~GrantsRead(Who, last.key)
    /\ \E P \in DOMAIN Policy \ {Who} :
          /\ Policy[P].allowPeerDependencies
          /\ GrantsRead(P, last.key)
          /\ Who \in Closure(P) \ DirectDeps(P)

\* C4 as stated: a read by an identity that is not in the policy (and is
\* not __main__) is never allowed.
C4_UnlistedReadDenied ==
    (IdentifiedRead /\ Who \notin DOMAIN Policy) => last.code # OK

\* C4: a read of key k by an identity that is not in the policy, is not
\* __main__ and is in the dependency closure of no policy identity that
\* propagates a grant of k is refused as unauthorized.
C4_UnlistedUnpropagatedReadDenied ==
    (IdentifiedRead /\ Who \notin DOMAIN Policy /\ ~PeerGranted(Who, last.key))
        => last.code = ERR_UNAUTHORIZED

\* an unlisted package is refused a key that a propagating identity grants,
\* because it lies outside that identity's closure
C4_Witness ==
    /\ IdentifiedRead
    /\ Who \notin DOMAIN Policy
    /\ last.code = ERR_UNAUTHORIZED
    /\ envVarAllowedCache # EmptyMap
    /\ \E P \in DOMAIN Policy :
          Policy[P].allowPeerDependencies /\ GrantsRead(P, last.key)

\* the per-operation list of identity I for the last call
OwnList(I) == IF last.call = "set" THEN Policy[I].canWrite ELSE Policy[I].canDelete

\* C5: a decided write (delete) of key k by an identity I other than
\* __main__ is allowed only if I's own entry's canWrite (canDelete) set
\* contains k or "*"; being in the closure of an identity that holds the
\* grant does not allow it.
C5_WriteDeleteOwnGrantOnly ==
    (Identified /\ last.call \in {"set", "delete"} /\ Who # MAIN /\ last.code = OK)
        => /\ Who \in DOMAIN Policy
           /\ (last.key \in OwnList(Who) \/ WILDCARD \in OwnList(Who))

\* a write refused to a package in the closure of an identity that may
\* write the key
C5_Witness ==
    /\ Identified
    /\ last.call = "set"
    /\ last.code = ERR_UNAUTHORIZED
    /\ \E P \in DOMAIN Policy \ {Who} :
          /\ Policy[P].allowPeerDependencies
          /\ Who \in Closure(P)
          /\ last.key \in Policy[P].canWrite

\* C6 as stated: a caller resolved as __main__ is allowed every operation
\* on every key, whatever the policy and the options.
C6_MainAlwaysAllowed ==
    (Identified /\ Who = MAIN) => last.code = OK

\* C6: a caller resolved as __main__ is allowed every operation on every
\* key whatever the policy and the protect options, except that a
\* resolution flagged eval-like is refused as an eval context when
\* failClosed is true.
C6_MainAllowedUnlessEvalBlocked ==
    (Identified /\ Who = MAIN)
        => last.code = IF last.caller.isEval /\ cachedOptions.value.failClosed
                       THEN ERR_EVAL_CONTEXT ELSE OK

\* the main application wrote a key under an empty policy
C6_Witness ==
    /\ Identified
    /\ Who = MAIN
    /\ last.call = "set"
    /\ last.code = OK
    /\ Policy = EmptyMap
    /\ cachedOptions.value.protectWrites

\* C7: when no caller can be determined, the access is refused as unknown
\* caller if failClosed is true and allowed if it is false, for every key
\* and operation, and no counter changes.
C7_UnknownCaller ==
    [][(last'.call \in TrapCalls /\ last'.decided /\ ~last'.caller.found)
       => /\ last'.code = IF cachedOptions.value.failClosed
                          THEN ERR_UNKNOWN_CALLER ELSE OK
          /\ accessCounts' = accessCounts]_vars

\* an undetermined caller was let through with failClosed off, after an
\* access had been counted
C7_Witness ==
    /\ last.call \in TrapCalls
    /\ last.decided
    /\ ~last.caller.found
    /\ last.code = OK
    /\ ~cachedOptions.value.failClosed
    /\ accessCounts # EmptyMap

\* C8: when the caller is flagged eval-like and failClosed is true, the
\* access is refused as an eval context whatever identity was resolved and
\* whatever the policy grants it.
C8_EvalBlocked ==
    (Identified /\ last.caller.isEval /\ cachedOptions.value.failClosed)
        => last.code = ERR_EVAL_CONTEXT

\* an eval-like read was refused to a package the policy grants every key
C8_Witness ==
    /\ Identified
    /\ last.call = "get"
    /\ last.caller.isEval
    /\ last.code = ERR_EVAL_CONTEXT
    /\ Who # MAIN
    /\ GrantsRead(Who, last.key)

\* C9: an access whose calling frame claims a package identity that fails
\* validation (its real path lies in another package, or its nearest
\* manifest names another package) is refused, whatever failClosed is,
\* whichever resolution strategy ran and whatever the policy grants the
\* claimed identity.
C9_SpoofedIdentityDenied ==
    (last.call \in TrapCalls /\ last.decided
        /\ last.claimed \notin {"", MAIN} /\ ~last.valid)
        => last.code # OK

\* C10 as stated: a direct dependency D of an identity P that propagates
\* with depth limit at least one gets the same read verdict as P for every
\* key.
C10_DependencySameVerdict ==
    isInitialized =>
        \A P \in DOMAIN Policy, k \in Keys : \A D \in DirectDeps(P) :
            (Policy[P].allowPeerDependencies /\ Policy[P].peerDepthLimit >= 1)
                => (isPackageAllowed(envVarAllowedCache, depGraph, D, k, Policy)
                    = isPackageAllowed(envVarAllowedCache, depGraph, P, k, Policy))

\* C10: a direct dependency D of an identity P that propagates with depth
\* limit at least one, and that P does not exclude, may read every key that
\* P's own allowed set grants, as P may.
C10_DependencyInheritsOwnGrants ==
    isInitialized =>
        \A P \in DOMAIN Policy, k \in Keys : \A D \in DirectDeps(P) :
            (/\ Policy[P].allowPeerDependencies
             /\ Policy[P].peerDepthLimit >= 1
             /\ D \notin Policy[P].excludePeerDependencies
             /\ GrantsRead(P, k))
                => /\ isPackageAllowed(envVarAllowedCache, depGraph, D, k, Policy)
                   /\ isPackageAllowed(envVarAllowedCache, depGraph, P, k, Policy)

\* an unlisted direct dependency read a key granted by the identity that
\* depends on it, at depth limit one
C10_Witness ==
    /\ IdentifiedRead
    /\ last.code = OK
    /\ Who \notin DOMAIN Policy
    /\ \E P \in DOMAIN Policy :
          /\ Policy[P].allowPeerDependencies
          /\ Policy[P].peerDepthLimit = 1
          /\ GrantsRead(P, last.key)
          /\ Who \in DirectDeps(P)

\* C11: an identity listed in P's excludePeerDependencies is never in the
\* closure P propagates to, whatever P's depth limit and the shape of the
\* dependency graph; a read it is allowed comes from its own grant or from
\* an identity that does not exclude it.
C11_ExcludedNeverPropagated ==
    /\ isInitialized =>
          \A P \in DOMAIN Policy :
              Closure(P) \cap Policy[P].excludePeerDependencies = {}
    /\ (IdentifiedRead /\ last.code = OK)
          => \/ GrantsRead(Who, last.key)
             \/ \E P \in DOMAIN Policy \ {Who} :
                   /\ Policy[P].allowPeerDependencies
                   /\ GrantsRead(P, last.key)
                   /\ Who \notin Policy[P].excludePeerDependencies

\* an excluded direct dependency was refused a key that its dependent
\* grants and propagates two levels deep
C11_Witness ==
    /\ IdentifiedRead
    /\ last.code = ERR_UNAUTHORIZED
    /\ \E P \in DOMAIN Policy :
          /\ Policy[P].allowPeerDependencies
          /\ Policy[P].peerDepthLimit = 2
          /\ GrantsRead(P, last.key)
          /\ Who \in Policy[P].excludePeerDependencies
          /\ Who \in DirectDeps(P)
          /\ Closure(P) # {}

\* C12: disable() on the active session's handle with the session's token
\* succeeds; afterwards the session is off, interception is removed and
\* the statistics are empty; and whenever no session is active -- after a
\* disable as before any enable -- every access by any caller is performed
\* without a decision and without a counter.
C12_DisableRestores ==
    [][/\ (/\ isInitialized
           /\ last'.call = "disable"
           /\ last'.handle = globalHandle
           /\ last'.provided = disableToken)
          => (/\ last'.code = OK
              /\ ~isInitialized'
              /\ ~isEnabled'
              /\ ~proxyEnv'
              /\ ~checkAccessFn'
              /\ disableToken' = NullToken
              /\ accessCounts' = EmptyMap)
       /\ (~isInitialized /\ last'.call \in TrapCalls)
          => (/\ last'.code = OK
              /\ ~last'.decided
              /\ accessCounts' = EmptyMap
              /\ env' = IF last'.call = "set" THEN env \cup {last'.key}
                        ELSE IF last'.call = "delete" THEN env \ {last'.key}
                        ELSE env)]_vars

\* after a session that had counted accesses was disabled, an eval-like
\* unlisted package deleted a key
C12_Witness ==
    /\ ~isInitialized
    /\ handles # {}
    /\ disableToken = NullToken
    /\ last.call = "delete"
    /\ last.claimed = "Q"
    /\ last.code = OK
    /\ last.key \notin env

\* C13: enableStrictEnv called while a session is active returns the handle
\* of that session and leaves its token, policy, options, counters and
\* interception unchanged, whatever is passed to the call; no second
\* session comes to exist.
C13_SingleSession ==
    [][(isInitialized /\ last'.call = "enable")
       => (/\ last'.code = OK
           /\ last'.handle = globalHandle
           /\ UNCHANGED <<sessionVars, env, handles, tokensIssued>>)]_vars

\* a repeated enable of a session that has counted an access
C13_Witness ==
    /\ isInitialized
    /\ last.call = "enable"
    /\ last.handle = globalHandle
    /\ accessCounts # EmptyMap

\* C14: the legacy entry point disableStrictEnv() throws the deprecation
\* error in every state and changes nothing: an active session stays
\* enabled with its token, policy and counters.
C14_LegacyDisableThrows ==
    [][(last'.call = "disableStrictEnv")
       => (/\ last'.code = ERR_DEPRECATED
           /\ UNCHANGED <<sessionVars, env, handles, tokensIssued>>)]_vars

\* the legacy entry point was called on an active session that has counted
\* an access
C14_Witness ==
    /\ isInitialized
    /\ isEnabled
    /\ last.call = "disableStrictEnv"
    /\ last.code = ERR_DEPRECATED
    /\ accessCounts # EmptyMap

\* the last call enumerated the keys of a session that filters enumeration
Enumerated ==
    isInitialized /\ last.call = "ownKeys" /\ proxyOptions.protectEnumeration

\* C15 as stated: with protectEnumeration on, enumeration returns exactly
\* the existing keys the caller is allowed to read.
C15_EnumerationIsReadSet ==
    Enumerated =>
        last.keys = {k \in env :
                        checkAccess(last.caller, cachedOptions.value, Policy, accessCounts,
                                    envVarAllowedCache, depGraph, k, "read").code = OK}

\* C15: with protectEnumeration on, enumeration returns the existing keys
\* the caller's own policy entry lets it read: all of them for __main__ and
\* for an identity whose own allowed set contains "*", those listed in its
\* own allowed set otherwise, none for an identity without an entry (a
\* grant received through peer propagation does not count, nor does the
\* eval flag); an unknown caller sees none when failClosed is on and all
\* when it is off.
C15_EnumerationOwnEntry ==
    Enumerated =>
        last.keys = IF ~last.caller.found
                    THEN (IF cachedOptions.value.failClosed THEN {} ELSE env)
                    ELSE IF Who = MAIN THEN env
                    ELSE IF Who \notin DOMAIN Policy THEN {}
                    ELSE IF WILDCARD \in Policy[Who].allowed THEN env
                    ELSE env \cap Policy[Who].allowed

\* a package without an entry saw no key although peer propagation lets it
\* read one that exists
C15_Witness ==
    /\ Enumerated
    /\ last.caller.found
    /\ Who \notin DOMAIN Policy
    /\ last.keys = {}
    /\ \E k \in env : PeerGranted(Who, k)

\* C16: write (delete) decisions are made exactly when protectWrites
\* (protectDeletes) is on; with the option off every write (delete) of any
\* key by any caller is performed without a decision, a counter or a cache
\* lookup, while reads of the same keys are still decided.
C16_OperationGating ==
    [][(isInitialized /\ last'.call \in TrapCalls) =>
          /\ (last'.call \in {"set", "defineProperty"})
                => (last'.decided = proxyOptions.protectWrites)
          /\ (last'.call = "delete")
                => (last'.decided = proxyOptions.protectDeletes)
          /\ (last'.call \in {"set", "defineProperty"} /\ ~proxyOptions.protectWrites)
                => (/\ last'.code = OK
                    /\ env' = env \cup {last'.key}
                    /\ UNCHANGED <<accessCounts, envVarAllowedCache>>)
          /\ (last'.call = "delete" /\ ~proxyOptions.protectDeletes)
                => (/\ last'.code = OK
                    /\ env' = env \ {last'.key}
                    /\ UNCHANGED <<accessCounts, envVarAllowedCache>>)
          /\ (last'.call \in {"get", "has", "getOwnPropertyDescriptor"}
                /\ last'.key \in Keys)
                => last'.decided]_vars

\* an unresolvable caller created a key under failClosed, protectWrites
\* being off
C16_Witness ==
    /\ isInitialized
    /\ last.call = "set"
    /\ ~last.decided
    /\ last.claimed = ""
    /\ cachedOptions.value.failClosed
    /\ ~proxyOptions.protectWrites
    /\ last.key = "L"
    /\ "L" \in env

\* C18 as stated: while a session is active every intercepted operation on
\* a string key invokes the decision engine.
C18_EveryTrapDecides ==
    [][(isInitialized /\ last'.call \in TrapCalls) => last'.decided]_vars

\* the operations of the last call that the proxy submits to a decision
Guarded(o) ==
    \/ o.call \in {"has", "getOwnPropertyDescriptor"}
    \/ o.call = "get" /\ o.key # INSPECT
    \/ o.call \in {"set", "defineProperty"} /\ proxyOptions.protectWrites
    \/ o.call = "delete" /\ proxyOptions.protectDeletes

\* C18: while a session is active, every has and getOwnPropertyDescriptor,
\* every get of a key other than "inspect", every set and defineProperty
\* when protectWrites is on and every delete when protectDeletes is on
\* invokes the decision engine before the underlying operation: a refused
\* write or delete leaves the environment unchanged and a refused read
\* yields no value.
C18_GuardedTrapDecidesFirst ==
    [][(isInitialized /\ last'.call \in TrapCalls /\ Guarded(last')) =>
          /\ last'.decided
          /\ env' = IF last'.code # OK THEN env
                    ELSE IF last'.call \in {"set", "defineProperty"}
                    THEN env \cup {last'.key}
                    ELSE IF last'.call = "delete" THEN env \ {last'.key}
                    ELSE env]_vars

\* a delete of an existing key was refused
C18_Witness ==
    /\ isInitialized
    /\ last.call = "delete"
    /\ last.decided
    /\ last.code = ERR_UNAUTHORIZED
    /\ last.key \in env

\* the operation a trap submits to the decision
OperationOf(call) ==
    IF call \in {"set", "defineProperty"} THEN "write"
    ELSE IF call = "delete" THEN "delete"
    ELSE "read"

\* the counter key of an observed access
CounterOf(o) == <<o.caller.packageName, o.key, OperationOf(o.call)>>

\* the access reached the policy check of the decision
ReachedPolicy(o) ==
    /\ o.call \in TrapCalls
    /\ o.decided
    /\ o.caller.found
    /\ o.caller.packageName # MAIN
    /\ ~(o.caller.isEval /\ cachedOptions.value.failClosed)

\* C19: every access by an identified caller other than __main__ that
\* reaches the policy check adds exactly one to the counter of its
\* (identity, key, operation), allowed or refused, and leaves the other
\* counters alone; while the session stays active no counter disappears or
\* decreases.
C19_CountersCountEveryDecision ==
    [][/\ ReachedPolicy(last') =>
             /\ CounterOf(last') \in DOMAIN accessCounts'
             /\ accessCounts'[CounterOf(last')]
                   = (IF CounterOf(last') \in DOMAIN accessCounts
                      THEN accessCounts[CounterOf(last')] ELSE 0) + 1
             /\ \A u \in DOMAIN accessCounts' \ {CounterOf(last')} :
                   u \in DOMAIN accessCounts /\ accessCounts'[u] = accessCounts[u]
       /\ (isInitialized /\ isInitialized') =>
             \A u \in DOMAIN accessCounts :
                 u \in DOMAIN accessCounts' /\ accessCounts'[u] >= accessCounts[u]]_vars

\* a refused write was counted for the second time
C19_Witness ==
    /\ ReachedPolicy(last)
    /\ last.call = "set"
    /\ last.code = ERR_UNAUTHORIZED
    /\ accessCounts[CounterOf(last)] = 2

\* the decision of a session with the given policy and options, for a
\* caller, a key and an operation
DecisionOf(config, options, callerInfo, key, operation) ==
    checkAccess(callerInfo, options, config, EmptyMap, EmptyMap, depGraph, key,
                operation).code

\* the callers of the round trip: unresolvable, the main application and
\* packages, each in and outside an eval-like context
RoundTripCallers ==
    {NoCaller} \cup {Caller(id, NoFile, isEval, "js") : id \in {MAIN, "P", "Q"},
                                                        isEval \in BOOLEAN}

\* a session is active that was loaded directly from the snapshot taken of
\* a session
LoadedFromSnapshot ==
    /\ isInitialized
    /\ configPath = DIRECT_PATH
    /\ snapshot.config.loaded
    /\ snapshot.options.loaded

\* C17: a session loaded directly from the {policy, options} snapshot of a
\* session decides every (identity, key, operation) as the session the
\* snapshot was taken of, the decisions that depend on the global options
\* included.
C17_RoundTripSameDecisions ==
    LoadedFromSnapshot =>
        \A c \in RoundTripCallers, k \in Keys, op \in {"read", "write", "delete"} :
            DecisionOf(cachedConfig.entries, cachedOptions.value, c, k, op)
                = DecisionOf(snapshot.config.entries, snapshot.options.value, c, k, op)

\* C20 as stated: in a worker with no active session, enableStrictEnv
\* without allowInWorker throws WorkerNotAllowed and nothing is activated.
C20_WorkerWithoutOptInThrows ==
    [][(last'.call = "enable" /\ ~isMainThread /\ ~last'.optIn /\ ~isInitialized)
       => /\ last'.code = ERR_WORKER_NOT_ALLOWED
          /\ ~isInitialized' /\ ~isEnabled' /\ ~proxyEnv']_vars

\* C20: in a worker, enableStrictEnv without allowInWorker changes nothing
\* of the session, the proxy, the configuration or the worker flag; with no
\* active session it throws, WorkerNotAllowed or the load-order error that
\* is checked before it, and the worker stays unprotected; with an active
\* session it returns that session's handle.
C20_WorkerWithoutOptInActivatesNothing ==
    [][(last'.call = "enable" /\ ~isMainThread /\ ~last'.optIn)
       => /\ UNCHANGED <<engineVars, configVars, depVars, proxyVars, worldVars, parserVars, hookVars, env,
                         handles, tokensIssued, workerAllowed, snapshot>>
          /\ ~isInitialized =>
                /\ last'.code \in {ERR_WORKER_NOT_ALLOWED, ERR_LOAD_ORDER}
                /\ ~isInitialized' /\ ~isEnabled' /\ ~proxyEnv'
          /\ isInitialized =>
                last'.code = OK /\ last'.handle = globalHandle]_vars

\* a worker that ran an opted-in session before is refused without opt-in
C20_Witness ==
    /\ ~isMainThread
    /\ last.call = "enable"
    /\ ~last.optIn
    /\ last.code = ERR_WORKER_NOT_ALLOWED
    /\ workerAllowed
    /\ ~isInitialized /\ ~isEnabled /\ ~proxyEnv

\* a valid call of enableStrictEnv: a readable manifest, the load order
\* respected, the opt-in given
ValidEnable ==
    \E src \in SessionSources :
        /\ enableStrictEnv(src, FALSE, TRUE, NoWorkerConfig)
        /\ last'.code = OK
        /\ isInitialized' /\ isEnabled' /\ proxyEnv'

\* enableStrictEnv has just thrown
EnableThrew == last.call = "enable" /\ last.code # OK

ThrownBy(o) == thrownError(o.code, o.caller, o.key, OperationOf(o.call))

\* C22: every denial is a thrown error that carries the error kind, the key
\* and the operation and, whenever the caller was identified, also the
\* identity, the source location, the line and the function name.
C22_DenialsAreStructured ==
    (last.call \in TrapCalls /\ last.code # OK) =>
        /\ ThrownBy(last).code
              \in {ERR_UNKNOWN_CALLER, ERR_EVAL_CONTEXT, ERR_UNAUTHORIZED}
        /\ ThrownBy(last).envVar = last.key
        /\ ThrownBy(last).operation = OperationOf(last.call)
        /\ last.caller.found =>
              /\ ThrownBy(last).packageName = <<last.caller.packageName>>
              /\ ThrownBy(last).fileName = <<last.caller.fileName>>
              /\ ThrownBy(last).lineNumber
              /\ ThrownBy(last).functionName

\* a field of a raw record entry, or the default when it is missing
FieldOr(f, default) == IF f = <<>> THEN default ELSE f[1]

\* a global option is true unless the reserved key holds an option object
\* that sets it to false
OptionOf(src, f) ==
    ~(/\ OPTIONS_KEY \in DOMAIN src
      /\ src[OPTIONS_KEY].kind = "options"
      /\ f = <<FALSE>>)
OptionFields(src) ==
    IF OPTIONS_KEY \in DOMAIN src /\ src[OPTIONS_KEY].kind = "options"
    THEN src[OPTIONS_KEY]
    ELSE RawOptions(None, None, None, None)

\* C23: the loaded policy holds, for a string entry s, the entry that
\* allows reading exactly {s}; for a list entry, the entry that allows
\* reading exactly its elements, both with empty canWrite and canDelete
\* and no propagation; for a record entry its own fields, a missing field
\* defaulting to the empty set, allowPeerDependencies false and
\* peerDepthLimit 1.  __options__ is never an identity of the policy, and
\* each global option is true unless the source sets it to false.
C23_NormalizedAsWritten ==
    (isInitialized /\ configPath = MANIFEST_PATH) =>
        /\ OPTIONS_KEY \notin DOMAIN cachedConfig.entries
        /\ \A n \in DOMAIN manifest \ {OPTIONS_KEY} :
              /\ manifest[n].kind \in {"string", "array"} =>
                    /\ n \in DOMAIN cachedConfig.entries
                    /\ cachedConfig.entries[n] =
                          [allowed |-> IF manifest[n].kind = "string"
                                       THEN {manifest[n].str} ELSE manifest[n].arr,
                           canWrite |-> {}, canDelete |-> {},
                           allowPeerDependencies |-> FALSE, peerDepthLimit |-> 1,
                           excludePeerDependencies |-> {}]
              /\ manifest[n].kind = "object" =>
                    /\ n \in DOMAIN cachedConfig.entries
                    /\ cachedConfig.entries[n] =
                          [allowed |-> FieldOr(manifest[n].allowed, {}),
                           canWrite |-> FieldOr(manifest[n].canWrite, {}),
                           canDelete |-> FieldOr(manifest[n].canDelete, {}),
                           allowPeerDependencies |-> manifest[n].allowPeerDependencies,
                           peerDepthLimit |-> FieldOr(manifest[n].peerDepthLimit, 1),
                           excludePeerDependencies |->
                               FieldOr(manifest[n].excludePeerDependencies, {})]
        /\ cachedOptions.value =
              [failClosed |-> OptionOf(manifest, OptionFields(manifest).failClosed),
               protectWrites |-> OptionOf(manifest, OptionFields(manifest).protectWrites),
               protectDeletes |-> OptionOf(manifest, OptionFields(manifest).protectDeletes),
               protectEnumeration |->
                   OptionOf(manifest, OptionFields(manifest).protectEnumeration)]

\* a list entry next to an option object that switches failClosed off has
\* been loaded, and the identity was refused a write of a key it may read
C23_Witness ==
    /\ isInitialized
    /\ configPath = MANIFEST_PATH
    /\ OPTIONS_KEY \in DOMAIN manifest
    /\ manifest["P"].kind = "array"
    /\ ~cachedOptions.value.failClosed
    /\ last.call = "set" /\ last.key = "K" /\ last.code = ERR_UNAUTHORIZED
    /\ last.caller.packageName = "P"

====
